---- MODULE Spec2Model ----
(***************************************************************************)
(* Model of the highlight pipeline of game-spotlights-ai:                  *)
(*   src/src/video-analysis/index.js  (handler, waitForJobCompletion,      *)
(*   analyzeResults, enhanceWithBedrock, enhanceWithComprehend,            *)
(*   storeHighlightMetadata).                                              *)
(*                                                                         *)
(* JavaScript numbers that are results of divisions (seconds, mean         *)
(* confidences, excitement levels) are exact rationals [num, den] in       *)
(* lowest terms; timestamps and detection confidences are integers.        *)
(* JavaScript objects are records; a property that is not set is a field   *)
(* that is not in the record's DOMAIN.                                     *)
(***************************************************************************)
EXTENDS Integers, Sequences, FiniteSets, TLC

VARIABLES
    \* ---- analyzeResults (locals of the function) ----
    labelResults,        \* argument / handler local: GetLabelDetection response
    personResults,       \* argument / handler local: GetPersonTracking response
    labelTimestamps,     \* timestamp -> list of {name, confidence}
    timestamps,          \* sorted distinct timestamps
    ti,                  \* number of timestamps the forEach has consumed
    currentCluster,      \* list of timestamps of the run being built
    lastTimestamp,
    potentialHighlights, \* list of candidates
    apc,                 \* position inside analyzeResults
    \* ---- handler and its collaborators ----
    pc,                  \* position of the handler
    analysisEvent,       \* event the handler was invoked with
    jobStatus,           \* Rekognition side: status of the label / person job
    jobData,             \* Rekognition side: result payload of a finished job
    submits,             \* number of Start*Detection calls per job type
    polls,               \* number of Get* calls per job type
    lastResponse,        \* response of the latest poll
    now,                 \* clock, in ms since the handler was invoked
    enhancedHighlights,  \* handler local: result of enhanceWithBedrock
    comprehendEnhancedHighlights, \* handler local: result of enhanceWithComprehend
    bedrockResponse,     \* outcome of the InvokeModel call
    bedrockCalls,        \* number of InvokeModel calls
    comprehendOutcome,   \* outcome of the Comprehend calls, per candidate
    comprehendCalls,     \* number of analyzeTextWithComprehend calls
    table,               \* DynamoDB highlights table: set of items
    batchStart,          \* loop variable i of storeHighlightMetadata
    putRequests,         \* items prepared by storeHighlightMetadata
    response,            \* value returned by the handler
    \* ---- clip processor and its collaborators ----
    highlightsTable,     \* DynamoDB highlights table: highlightId -> item
    mcJobs,              \* MediaConvert side: the jobs, a job's Id is its index
    clipEvent,           \* event of the latest clip-processor invocation
    clipOutcome,         \* outcomes of the collaborator calls of that invocation
    clipResponse,        \* value the clip-processor handler returned
    \* ---- personalization and its collaborators ----
    campaignArn,         \* PERSONALIZE_CAMPAIGN_ARN of the deployment
    rankTable,           \* DynamoDB highlights table as a scan returns it
    preferences,         \* DynamoDB preferences table: the items of the user
    rankEvent,           \* event of the latest ranking request
    rankOutcome,         \* outcomes of the collaborator calls of that request
    rankHighlights,      \* handler local highlights when the handler returned
    rankResponse         \* value the personalization handler returned

clusterVars == <<labelResults, personResults, labelTimestamps, timestamps, ti,
                 currentCluster, lastTimestamp, potentialHighlights, apc>>
pipeVars == <<pc, analysisEvent, jobStatus, jobData, submits, polls, lastResponse, now,
              enhancedHighlights, comprehendEnhancedHighlights, bedrockResponse,
              bedrockCalls, comprehendOutcome, comprehendCalls, table, batchStart,
              putRequests, response>>
clipVars == <<highlightsTable, mcJobs, clipEvent, clipOutcome, clipResponse>>
rankVars == <<campaignArn, rankTable, preferences, rankEvent, rankOutcome,
              rankHighlights, rankResponse>>
otherVars == <<clipVars, rankVars>>
vars == <<clusterVars, pipeVars, otherVars>>

(***************************************************************************)
(* Bounds of the model                                                     *)
(***************************************************************************)
MaxEvents == 6          \* detections in one GetLabelDetection response
MaxPersonIndex == 6     \* largest tracked-person index
MaxPolls == 2           \* 5 s waits of one handler invocation

(***************************************************************************)
(* Program constants                                                       *)
(***************************************************************************)
ClusterGapMs == 5000
MinClusterSize == 3
MinLabelConfidence == 85
PersonBoostThreshold == 5
PollIntervalMs == 5000
BatchSize == 25

(***************************************************************************)
(* JavaScript values                                                       *)
(***************************************************************************)
Undefined == [undefined |-> TRUE]
Null == [null |-> TRUE]
EmptyObject == <<>>      \* {}
Has(o, f) == f \in DOMAIN o
\* { ...o, f: v }
Assign(o, f, v) == (f :> v) @@ o

RECURSIVE GCD(_, _)
GCD(a, b) == IF b = 0 THEN a ELSE GCD(b, a % b)
\* the number n/d (d > 0, n >= 0)
Rat(n, d) == LET g == GCD(n, d) IN [num |-> n \div g, den |-> d \div g]
RatInt(n) == Rat(n, 1)
RatDiv(a, k) == Rat(a.num, a.den * k)          \* a / k
RatMul(a, n, d) == Rat(a.num * n, a.den * d)   \* a * (n/d)
RatSub(a, b) == Rat(a.num * b.den - b.num * a.den, a.den * b.den)
RatLt(a, b) == a.num * b.den < b.num * a.den
RatLe(a, b) == a.num * b.den <= b.num * a.den

RECURSIVE SortAsc(_)
\* Array.prototype.sort((a, b) => a - b) on distinct integers
SortAsc(S) ==
    IF S = {} THEN <<>>
    ELSE LET m == CHOOSE x \in S : \A y \in S : x <= y
         IN <<m>> \o SortAsc(S \ {m})

Range(s) == {s[i] : i \in DOMAIN s}
Last(s) == s[Len(s)]

(***************************************************************************)
(* Inputs: what the detection / tracking collaborator can return           *)
(***************************************************************************)
Detection(t, n, c) == [Timestamp |-> t, Label |-> [Name |-> n], Confidence |-> c]

\* in timestamp order, as GetLabelDetection sorts its Labels
EventUniverse == <<
    Detection(0,    "Ball",        90),
    Detection(1000, "Goal",        92),
    Detection(1000, "Tree",        99),
    Detection(2000, "Celebration", 95),
    Detection(2000, "Crowd",       86),
    Detection(4000, "Sports",      91),
    Detection(7000, "Ball",        90),
    Detection(8000, "Goal",        100),
    Detection(8000, "Ball",        85),
    Detection(9000, "Person",      87) >>

RECURSIVE PickEvents(_, _)
\* the sub-list of EventUniverse at the positions I, from position k on
PickEvents(I, k) ==
    IF k > Len(EventUniverse) THEN <<>>
    ELSE (IF k \in I THEN <<EventUniverse[k]>> ELSE <<>>) \o PickEvents(I, k + 1)

LabelResponse(I) == [JobStatus |-> "SUCCEEDED", Labels |-> PickEvents(I, 1)]

PersonSample(i, t) == [Timestamp |-> t, Person |-> [Index |-> i]]

(***************************************************************************)
(* analyzeResults                                                          *)
(***************************************************************************)
\* the filter letting a confidence of exactly 85 through
IsInterestingInclusive(label) ==
    LET
        interestingLabels == {"Ball", "Sports", "Goal", "Celebration", "Person", "Crowd"}
    IN
    label.Label.Name \in interestingLabels /\ label.Confidence >= MinLabelConfidence

\* the filter of the forEach over labelResults.Labels
IsInteresting(label) ==
    LET
        interestingLabels == {"Ball", "Sports", "Goal", "Celebration", "Person", "Crowd"}
    IN
    label.Label.Name \in interestingLabels /\ label.Confidence > MinLabelConfidence

\* labelTimestamps after the forEach over labelResults.Labels
BuildLabelTimestamps(lr) ==
    IF ~Has(lr, "Labels") THEN <<>>
    ELSE LET kept == SelectSeq(lr.Labels, IsInteresting)
             At(t) == SelectSeq(kept, LAMBDA l : l.Timestamp = t)
         IN [t \in {kept[i].Timestamp : i \in DOMAIN kept} |->
                [i \in 1..Len(At(t)) |->
                    [name |-> At(t)[i].Label.Name,
                     confidence |-> At(t)[i].Confidence]]]

RECURSIVE SumConfidence(_)
SumConfidence(dets) ==
    IF dets = <<>> THEN 0 ELSE Head(dets).confidence + SumConfidence(Tail(dets))

RECURSIVE ClusterTotals(_, _)
\* <<totalConfidence, count>> after the two nested forEach loops
ClusterTotals(cluster, lts) ==
    IF cluster = <<>> THEN <<0, 0>>
    ELSE LET rest == ClusterTotals(Tail(cluster), lts)
             dets == lts[Head(cluster)]
         IN <<SumConfidence(dets) + rest[1], Len(dets) + rest[2]>>

PerTimestampMean(cluster, lts) ==
    LET tc == ClusterTotals(cluster, lts)
    IN IF Len(cluster) > 0 THEN Rat(tc[1], Len(cluster)) ELSE RatInt(0)

calculateClusterConfidence(cluster, lts) ==
    LET tc == ClusterTotals(cluster, lts)
    IN IF tc[2] > 0 THEN Rat(tc[1], tc[2]) ELSE RatInt(0)

RECURSIVE AddNames(_, _)
\* Set.add of every name, in order; a Set keeps insertion order
AddNames(acc, dets) ==
    IF dets = <<>> THEN acc
    ELSE AddNames(IF Head(dets).name \in Range(acc) THEN acc
                  ELSE Append(acc, Head(dets).name), Tail(dets))

RECURSIVE UniqueLabelsFrom(_, _, _)
UniqueLabelsFrom(acc, cluster, lts) ==
    IF cluster = <<>> THEN acc
    ELSE UniqueLabelsFrom(AddNames(acc, lts[Head(cluster)]), Tail(cluster), lts)

getUniqueLabels(cluster, lts) == UniqueLabelsFrom(<<>>, cluster, lts)

\* the candidate with the ends of the cluster taken the other way round
MakeCandidateReversed(cluster, lts) ==
    LET startTime == cluster[Len(cluster)]
        endTime == cluster[1]
    IN [startTime |-> Rat(startTime, 1000),
        endTime |-> Rat(endTime, 1000),
        duration |-> RatSub(Rat(endTime, 1000), Rat(startTime, 1000)),
        confidence |-> calculateClusterConfidence(cluster, lts),
        labels |-> getUniqueLabels(cluster, lts)]

\* the object literal pushed onto potentialHighlights
MakeCandidate(cluster, lts) ==
    LET startTime == cluster[1]
        endTime == cluster[Len(cluster)]
    IN [startTime |-> Rat(startTime, 1000),
        endTime |-> Rat(endTime, 1000),
        duration |-> Rat(endTime - startTime, 1000),
        confidence |-> calculateClusterConfidence(cluster, lts),
        labels |-> getUniqueLabels(cluster, lts)]

ExtendsClusterInclusive(cluster, timestamp, last) ==
    Len(cluster) = 0 \/ timestamp - last <= ClusterGapMs

\* the condition of the if inside timestamps.forEach
ExtendsCluster(cluster, timestamp, last) ==
    Len(cluster) = 0 \/ timestamp - last < ClusterGapMs

QualifiesFromTwo(cluster) == Len(cluster) >= MinClusterSize - 1

\* if (currentCluster.length >= 3), at both places
ClusterQualifies(cluster) == Len(cluster) >= MinClusterSize

\* potentialHighlights after a run is finished
CloseCluster(ph, cluster, lts) ==
    IF ClusterQualifies(cluster) THEN Append(ph, MakeCandidate(cluster, lts)) ELSE ph

\* the sweep that closes a cluster without starting a new one
SweepIterationKeepingCluster(st, timestamp, lts) ==
    IF ExtendsCluster(st.currentCluster, timestamp, st.lastTimestamp)
    THEN [currentCluster |-> Append(st.currentCluster, timestamp),
          lastTimestamp |-> timestamp,
          potentialHighlights |-> st.potentialHighlights]
    ELSE [currentCluster |-> Append(st.currentCluster, timestamp),
          lastTimestamp |-> timestamp,
          potentialHighlights |->
              CloseCluster(st.potentialHighlights, st.currentCluster, lts)]

\* one iteration of timestamps.forEach, on the locals
\* st = [currentCluster, lastTimestamp, potentialHighlights]
SweepIteration(st, timestamp, lts) ==
    IF ExtendsCluster(st.currentCluster, timestamp, st.lastTimestamp)
    THEN [currentCluster |-> Append(st.currentCluster, timestamp),
          lastTimestamp |-> timestamp,
          potentialHighlights |-> st.potentialHighlights]
    ELSE [currentCluster |-> <<timestamp>>,
          lastTimestamp |-> timestamp,
          potentialHighlights |->
              CloseCluster(st.potentialHighlights, st.currentCluster, lts)]

enhanceWithPersonData(hs, pr) ==
    LET
        \* the person-count and confidence update of one highlight
        PersonCountOf(highlight, persons) ==
            LET startTimeMs == RatMul(highlight.startTime, 1000, 1)
                endTimeMs == RatMul(highlight.endTime, 1000, 1)
                inHighlight == SelectSeq(persons, LAMBDA p :
                                   /\ RatLe(startTimeMs, RatInt(p.Timestamp))
                                   /\ RatLe(RatInt(p.Timestamp), endTimeMs))
                uniquePersonIds == {inHighlight[i].Person.Index : i \in
                                       {j \in DOMAIN inHighlight :
                                            /\ Has(inHighlight[j], "Person")
                                            /\ inHighlight[j].Person.Index # 0}}
            IN Cardinality(uniquePersonIds)
    IN
    IF ~Has(pr, "Persons") THEN hs
    ELSE [i \in 1..Len(hs) |->
            LET n == PersonCountOf(hs[i], pr.Persons)
                counted == Assign(hs[i], "personCount", n)
            IN IF n > PersonBoostThreshold
               THEN Assign(counted, "confidence", RatMul(hs[i].confidence, 6, 5))
               ELSE counted]

RECURSIVE InsertBeforeEqualConfidence(_, _)
\* insert h in front of the elements of equal confidence
InsertBeforeEqualConfidence(sorted, h) ==
    IF sorted = <<>> THEN <<h>>
    ELSE IF RatLe(Head(sorted).confidence, h.confidence)
         THEN <<h>> \o sorted
         ELSE <<Head(sorted)>> \o InsertBeforeEqualConfidence(Tail(sorted), h)

RECURSIVE InsertByConfidence(_, _)
\* insert h behind every element that does not compare after it
InsertByConfidence(sorted, h) ==
    IF sorted = <<>> THEN <<h>>
    ELSE IF RatLt(Head(sorted).confidence, h.confidence)
         THEN <<h>> \o sorted
         ELSE <<Head(sorted)>> \o InsertByConfidence(Tail(sorted), h)

RECURSIVE SortByConfidenceFrom(_, _)
SortByConfidenceFrom(sorted, rest) ==
    IF rest = <<>> THEN sorted
    ELSE SortByConfidenceFrom(InsertByConfidence(sorted, Head(rest)), Tail(rest))

\* potentialHighlights.sort((a, b) => b.confidence - a.confidence), stable
SortByConfidence(hs) == SortByConfidenceFrom(<<>>, hs)

\* what follows the forEach: last cluster, person data, sort
FinishAnalysis(st, lts, pr) ==
    SortByConfidence(
        enhanceWithPersonData(
            CloseCluster(st.potentialHighlights, st.currentCluster, lts), pr))

RECURSIVE SweepFrom(_, _, _)
SweepFrom(st, ts, lts) ==
    IF ts = <<>> THEN st
    ELSE SweepFrom(SweepIteration(st, Head(ts), lts), Tail(ts), lts)

SweepStart == [currentCluster |-> <<>>, lastTimestamp |-> 0,
               potentialHighlights |-> <<>>]

analyzeResults(lr, pr) ==
    LET lts == BuildLabelTimestamps(lr)
    IN FinishAnalysis(SweepFrom(SweepStart, SortAsc(DOMAIN lts), lts), lts, pr)

(***************************************************************************)
(* analyzeResults, one loop iteration at a time                            *)
(***************************************************************************)

\* the clip processor has not been invoked: nothing stored, nothing submitted
ClipIdle ==
    /\ highlightsTable = <<>>
    /\ mcJobs = <<>>
    /\ clipEvent = Undefined
    /\ clipOutcome = <<>>
    /\ clipResponse = Undefined

\* no ranking request has been made: nothing stored, nothing returned
RankIdle ==
    /\ campaignArn = Undefined
    /\ rankTable = <<>>
    /\ preferences = {}
    /\ rankEvent = Undefined
    /\ rankOutcome = Undefined
    /\ rankHighlights = <<>>
    /\ rankResponse = Undefined

PipeIdle ==
    /\ pc = "idle"
    /\ analysisEvent = Undefined
    /\ jobStatus = [j \in {"label", "person"} |-> "NONE"]
    /\ jobData = [j \in {"label", "person"} |-> Undefined]
    /\ submits = [j \in {"label", "person"} |-> 0]
    /\ polls = [j \in {"label", "person"} |-> 0]
    /\ lastResponse = Undefined
    /\ now = 0
    /\ enhancedHighlights = <<>>
    /\ comprehendEnhancedHighlights = <<>>
    /\ bedrockResponse = Undefined
    /\ bedrockCalls = 0
    /\ comprehendOutcome = <<>>
    /\ comprehendCalls = 0
    /\ table = {}
    /\ batchStart = 0
    /\ putRequests = <<>>
    /\ response = Undefined

\* analyzeResults is entered with the two job results
InitCluster ==
    LET
        \* persons lo..hi, each seen once at time t
        PersonInputs ==
            LET
                PersonTimes == {1000, 8000}
            IN
            {[JobStatus |-> "SUCCEEDED",
              Persons |-> [k \in 1..(hi - lo + 1) |-> PersonSample(lo + k - 1, t)]] :
                lo \in {0, 1}, hi \in (MaxPersonIndex - 1)..MaxPersonIndex, t \in PersonTimes}
            \cup {[JobStatus |-> "SUCCEEDED", Persons |-> <<>>], [JobStatus |-> "SUCCEEDED"]}
        LabelInputs ==
            {LabelResponse(I) : I \in {J \in SUBSET (1..Len(EventUniverse)) :
                                           Cardinality(J) <= MaxEvents}}
            \cup {[JobStatus |-> "SUCCEEDED"]}
    IN
    /\ labelResults \in LabelInputs
    /\ personResults \in PersonInputs
    /\ labelTimestamps = <<>>
    /\ timestamps = <<>>
    /\ ti = 0
    /\ currentCluster = <<>>
    /\ lastTimestamp = 0
    /\ potentialHighlights = <<>>
    /\ apc = "group"
    /\ PipeIdle
    /\ ClipIdle
    /\ RankIdle

\* lines 647-672: the locals, labelTimestamps, the sorted timestamps
GroupLabels ==
    /\ apc = "group"
    /\ labelTimestamps' = BuildLabelTimestamps(labelResults)
    /\ timestamps' = SortAsc(DOMAIN labelTimestamps')
    /\ ti' = 0
    /\ currentCluster' = SweepStart.currentCluster
    /\ lastTimestamp' = SweepStart.lastTimestamp
    /\ potentialHighlights' = SweepStart.potentialHighlights
    /\ apc' = "sweep"
    /\ UNCHANGED <<labelResults, personResults, pipeVars, otherVars>>

\* lines 674-698: one iteration of timestamps.forEach
SweepStep ==
    LET
        SweepState == [currentCluster |-> currentCluster, lastTimestamp |-> lastTimestamp,
                       potentialHighlights |-> potentialHighlights]
    IN
    /\ apc = "sweep"
    /\ ti < Len(timestamps)
    /\ LET st == SweepIteration(SweepState, timestamps[ti + 1], labelTimestamps)
       IN /\ currentCluster' = st.currentCluster
          /\ lastTimestamp' = st.lastTimestamp
          /\ potentialHighlights' = st.potentialHighlights
    /\ ti' = ti + 1
    /\ UNCHANGED <<labelResults, personResults, labelTimestamps, timestamps, apc,
                   pipeVars, otherVars>>

\* lines 700-712: the last cluster
LastCluster ==
    /\ apc = "sweep"
    /\ ti = Len(timestamps)
    /\ potentialHighlights' =
           CloseCluster(potentialHighlights, currentCluster, labelTimestamps)
    /\ apc' = "persons"
    /\ UNCHANGED <<labelResults, personResults, labelTimestamps, timestamps, ti,
                   currentCluster, lastTimestamp, pipeVars, otherVars>>

\* lines 714-718: person data, then the sort
PersonsAndSort ==
    /\ apc = "persons"
    /\ potentialHighlights' =
           SortByConfidence(enhanceWithPersonData(potentialHighlights, personResults))
    /\ apc' = "done"
    /\ UNCHANGED <<labelResults, personResults, labelTimestamps, timestamps, ti,
                   currentCluster, lastTimestamp, pipeVars, otherVars>>

NextCluster == GroupLabels \/ SweepStep \/ LastCluster \/ PersonsAndSort

SpecCluster == InitCluster /\ [][NextCluster]_vars

(***************************************************************************)
(* Claims about the clustering sweep                                       *)
(***************************************************************************)
\* the detections that pass the filter, straight from the response
KeptDetections ==
    IF Has(labelResults, "Labels")
    THEN SelectSeq(labelResults.Labels, IsInteresting) ELSE <<>>
KeptTimestamps == {KeptDetections[i].Timestamp : i \in DOMAIN KeptDetections}
\* the kept timestamps a candidate spans
SpannedTimestamps(h) ==
    {t \in KeptTimestamps : RatLe(h.startTime, Rat(t, 1000)) /\ RatLe(Rat(t, 1000), h.endTime)}

\* C1: analyzeResults never holds or outputs a candidate built from fewer than
\* 3 distinct filtered timestamps, whether the run was closed by a later gap or
\* was the last run of the sweep.
C1_AtLeastThreeTimestamps ==
    \A i \in DOMAIN potentialHighlights :
        Cardinality(SpannedTimestamps(potentialHighlights[i])) >= 3

\* a run of two timestamps was closed by a gap and dropped, the last run was kept
C1_Witness ==
    /\ apc = "done"
    /\ timestamps = <<0, 1000, 7000, 8000, 9000>>
    /\ Len(potentialHighlights) = 1
    /\ potentialHighlights[1].startTime = RatInt(7)

\* C2: from the second timestamp on, an iteration of the sweep begins a new
\* cluster exactly when the gap to the previous timestamp exceeds 5000 ms, and
\* extends the current cluster for every gap of at most 5000 ms.
C2_NewClusterIffGapExceeds ==
    [][(apc = "sweep" /\ ti >= 1 /\ ti' = ti + 1) =>
        LET t == timestamps[ti + 1]
        IN /\ (currentCluster' = <<t>>) <=> (t - lastTimestamp > ClusterGapMs)
           /\ (currentCluster' = Append(currentCluster, t))
                  <=> (t - lastTimestamp <= ClusterGapMs)]_vars

\* the kept detections whose timestamp is in the cluster
DetectionsIn(cluster) ==
    SelectSeq(KeptDetections, LAMBDA l : l.Timestamp \in Range(cluster))

RECURSIVE SumOfConfidences(_)
SumOfConfidences(ls) ==
    IF ls = <<>> THEN 0 ELSE Head(ls).Confidence + SumOfConfidences(Tail(ls))

CandidateOfCluster(h, cluster) ==
    LET ds == DetectionsIn(cluster)
    IN /\ h.startTime = Rat(cluster[1], 1000)
       /\ h.endTime = Rat(cluster[Len(cluster)], 1000)
       /\ h.duration = RatSub(h.endTime, h.startTime)
       /\ Range(h.labels) = {ds[i].Label.Name : i \in DOMAIN ds}
       /\ Cardinality(Range(h.labels)) = Len(h.labels)
       /\ h.confidence = Rat(SumOfConfidences(ds), Len(ds))

ExampleEvents == <<Detection(0, "Ball", 90), Detection(1000, "Goal", 92),
                   Detection(2000, "Celebration", 95)>>

ExampleCandidate(h) ==
    /\ h.startTime = RatInt(0)
    /\ h.endTime = RatInt(2)
    /\ h.duration = RatInt(2)
    /\ h.confidence = Rat(277, 3)
    /\ Range(h.labels) = {"Ball", "Goal", "Celebration"}

\* C3: the candidate pushed for a closed cluster has startTime = first
\* timestamp / 1000, endTime = last timestamp / 1000, duration = endTime -
\* startTime, labels = the distinct label names of the cluster's detections and
\* confidence = the mean over all detections of the cluster; the three example
\* events give exactly one candidate 0 / 2 / 2 / 277/3 / {Ball, Goal, Celebration}.
C3_CandidateFields ==
    /\ [][(apc = "sweep" /\ Len(potentialHighlights') = Len(potentialHighlights) + 1)
            => CandidateOfCluster(Last(potentialHighlights'), currentCluster)]_vars
    /\ []((apc = "persons" /\ Has(labelResults, "Labels")
                           /\ labelResults.Labels = ExampleEvents)
            => /\ Len(potentialHighlights) = 1
               /\ ExampleCandidate(potentialHighlights[1]))

\* the example has been clustered
C3_Witness ==
    /\ apc = "persons"
    /\ Has(labelResults, "Labels")
    /\ labelResults.Labels = ExampleEvents
    /\ Len(potentialHighlights) = 1

(***************************************************************************)
(* Strings on which the code computes: lists of characters                 *)
(***************************************************************************)

\* String.prototype.toLowerCase
ToLowerCase(str) ==
    LET
        UpperCase == <<"A", "B", "C", "D", "E", "F", "G", "H", "I", "J", "K", "L", "M", "N", "O", "P", "Q", "R", "S", "T", "U", "V", "W", "X", "Y", "Z">>
        LowerCase == <<"a", "b", "c", "d", "e", "f", "g", "h", "i", "j", "k", "l", "m", "n", "o", "p", "q", "r", "s", "t", "u", "v", "w", "x", "y", "z">>
    IN
    [i \in 1..Len(str) |->
        IF \E k \in DOMAIN UpperCase : UpperCase[k] = str[i]
        THEN LowerCase[CHOOSE k \in DOMAIN UpperCase : UpperCase[k] = str[i]]
        ELSE str[i]]

\* String.prototype.includes
Includes(str, sub) ==
    \E i \in 0..(Len(str) - Len(sub)) : SubSeq(str, i + 1, i + Len(sub)) = sub

(***************************************************************************)
(* enhanceWithBedrock                                                      *)
(***************************************************************************)
Json(v) == [json |-> TRUE, value |-> v]

\* the map() of the catch block
BedrockFallbackLoud(highlight) ==
    Assign(Assign(Assign(Assign(highlight,
        "aiEnhanced", TRUE),
        "excitementLevel", RatDiv(highlight.confidence, 10)),
        "playType", "detected"),
        "aiTitle", "Auto-detected Highlight")

BedrockFallback(highlight) ==
    Assign(Assign(Assign(Assign(highlight,
        "aiEnhanced", FALSE),
        "excitementLevel", RatDiv(highlight.confidence, 10)),
        "playType", "detected"),
        "aiTitle", "Auto-detected Highlight")

TruthyString(o, f) == Has(o, f) /\ o[f] # ""
TruthyNumber(o, f) == Has(o, f) /\ o[f].num # 0

\* aiAnalysis.highlights?.[index] || {}     (index is 1-based here)
InsightAt(aiAnalysis, index) ==
    IF Has(aiAnalysis, "highlights") /\ index <= Len(aiAnalysis.highlights)
    THEN aiAnalysis.highlights[index] ELSE EmptyObject

\* the merge reading the response one position further on
MergeInsightNext(highlight, index, aiAnalysis) ==
    LET aiInsight == InsightAt(aiAnalysis, index + 1)
    IN Assign(Assign(Assign(Assign(Assign(highlight,
        "excitementLevel", IF TruthyNumber(aiInsight, "excitementLevel")
                           THEN aiInsight.excitementLevel
                           ELSE RatDiv(highlight.confidence, 10)),
        "playType", IF TruthyString(aiInsight, "playType")
                    THEN aiInsight.playType ELSE "general"),
        "aiTitle", IF TruthyString(aiInsight, "title")
                   THEN aiInsight.title ELSE "Highlight " \o ToString(index)),
        "targetAudience", IF TruthyString(aiInsight, "targetAudience")
                          THEN aiInsight.targetAudience ELSE "general"),
        "aiEnhanced", TRUE)

MergeInsightShifted(highlight, index, aiAnalysis) ==
    LET aiInsight == InsightAt(aiAnalysis, 1)
    IN Assign(Assign(Assign(Assign(Assign(highlight,
        "excitementLevel", IF TruthyNumber(aiInsight, "excitementLevel")
                           THEN aiInsight.excitementLevel
                           ELSE RatDiv(highlight.confidence, 10)),
        "playType", IF TruthyString(aiInsight, "playType")
                    THEN aiInsight.playType ELSE "general"),
        "aiTitle", IF TruthyString(aiInsight, "title")
                   THEN aiInsight.title ELSE "Highlight " \o ToString(index)),
        "targetAudience", IF TruthyString(aiInsight, "targetAudience")
                          THEN aiInsight.targetAudience ELSE "general"),
        "aiEnhanced", TRUE)

\* the callback of highlights.map in the success branch
MergeInsight(highlight, index, aiAnalysis) ==
    LET aiInsight == InsightAt(aiAnalysis, index)
    IN Assign(Assign(Assign(Assign(Assign(highlight,
        "excitementLevel", IF TruthyNumber(aiInsight, "excitementLevel")
                           THEN aiInsight.excitementLevel
                           ELSE RatDiv(highlight.confidence, 10)),
        "playType", IF TruthyString(aiInsight, "playType")
                    THEN aiInsight.playType ELSE "general"),
        "aiTitle", IF TruthyString(aiInsight, "title")
                   THEN aiInsight.title ELSE "Highlight " \o ToString(index)),
        "targetAudience", IF TruthyString(aiInsight, "targetAudience")
                          THEN aiInsight.targetAudience ELSE "general"),
        "aiEnhanced", TRUE)

\* which way enhanceWithBedrock leaves: "catch", "merge" or "fallthrough"
\* r = [throws |-> TRUE] when send() rejects, else [body |-> JSON text]
BedrockPath(r) ==
    IF Has(r, "throws") THEN "catch"
    ELSE IF ~r.body.json THEN "catch"                    \* JSON.parse(body) throws
    ELSE LET responseBody == r.body.value
         IN IF /\ Has(responseBody, "content")
               /\ Len(responseBody.content) >= 1
               /\ Has(responseBody.content[1], "text")
            THEN IF ~responseBody.content[1].text.json
                 THEN "catch"                            \* JSON.parse(text) throws
                 ELSE "merge"
            ELSE "fallthrough"

enhanceWithBedrock(hs, r) ==
    CASE BedrockPath(r) = "catch" ->
            [i \in 1..Len(hs) |-> BedrockFallback(hs[i])]
      [] BedrockPath(r) = "merge" ->
            [i \in 1..Len(hs) |->
                MergeInsight(hs[i], i, r.body.value.content[1].text.value)]
      [] OTHER -> hs

\* what the generative collaborator can answer
GoalInsight == [excitementLevel |-> RatInt(9), playType |-> "goal",
                title |-> "Great Goal", targetAudience |-> "soccer fans"]

MaxInsights == 2

(***************************************************************************)
(* enhanceWithComprehend                                                   *)
(***************************************************************************)
Throws == [throws |-> TRUE]

\* o = the outcomes of the three Comprehend calls for one text, in call order;
\* a call after a failed one is not made
analyzeTextWithComprehend(o) ==
    LET
        \* phrase => ({ text: phrase.Text, confidence: phrase.Score })
        PhraseOf(ph) ==
            IF Has(ph, "Text") THEN [text |-> ph.Text, confidence |-> ph.Score]
            ELSE [confidence |-> ph.Score]
        \* entity => ({ text: entity.Text, type: entity.Type, confidence: entity.Score })
        EntityOf(e) ==
            IF Has(e, "Text") THEN [text |-> e.Text, type |-> e.Type, confidence |-> e.Score]
            ELSE [type |-> e.Type, confidence |-> e.Score]
        \* { sentiment: r.Sentiment, confidence: r.SentimentScore[r.Sentiment] }
        SentimentOf(r) ==
            IF Has(r.SentimentScore, r.Sentiment)
            THEN [sentiment |-> r.Sentiment, confidence |-> r.SentimentScore[r.Sentiment]]
            ELSE [sentiment |-> r.Sentiment]
        \* analysis object returned by the catch block and built at the start of try
        EmptyAnalysis == [sentiment |-> Null, entities |-> <<>>, keyPhrases |-> <<>>]
    IN
    IF \/ Has(o.sentiment, "throws")
       \/ Has(o.entities, "throws")
       \/ Has(o.keyPhrases, "throws")
    THEN EmptyAnalysis
    ELSE [sentiment |-> SentimentOf(o.sentiment),
          entities |-> [i \in 1..Len(o.entities.Entities) |->
                           EntityOf(o.entities.Entities[i])],
          keyPhrases |-> [i \in 1..Len(o.keyPhrases.KeyPhrases) |->
                             PhraseOf(o.keyPhrases.KeyPhrases[i])]]

RECURSIVE GameplayTypeFrom(_, _)
\* the loop over the entities; a later match overwrites an earlier one
GameplayTypeFrom(type, entities) ==
    LET
        W_move == <<"m", "o", "v", "e">>
        W_skill == <<"s", "k", "i", "l", "l">>
        W_defense == <<"d", "e", "f", "e", "n", "s", "e">>
        W_save == <<"s", "a", "v", "e">>
        W_score == <<"s", "c", "o", "r", "e">>
        W_goal == <<"g", "o", "a", "l">>
    IN
    IF entities = <<>> THEN type
    ELSE LET text == ToLowerCase(Head(entities).text)
         IN GameplayTypeFrom(
                IF Includes(text, W_goal) \/ Includes(text, W_score) THEN "scoring"
                ELSE IF Includes(text, W_save) \/ Includes(text, W_defense)
                     THEN "defensive"
                ELSE IF Includes(text, W_skill) \/ Includes(text, W_move)
                     THEN "technical"
                ELSE type,
                Tail(entities))

RECURSIVE AppealScoreAdditive(_)
\* a phrase scores for both word groups
AppealScoreAdditive(phrases) ==
    LET
        W_nice == <<"n", "i", "c", "e">>
        W_good == <<"g", "o", "o", "d">>
        W_great == <<"g", "r", "e", "a", "t">>
        W_incredible == <<"i", "n", "c", "r", "e", "d", "i", "b", "l", "e">>
        W_amazing == <<"a", "m", "a", "z", "i", "n", "g">>
        W_epic == <<"e", "p", "i", "c">>
    IN
    IF phrases = <<>> THEN 0
    ELSE LET text == ToLowerCase(Head(phrases).text)
         IN (IF \/ Includes(text, W_epic) \/ Includes(text, W_amazing)
                \/ Includes(text, W_incredible) THEN 2 ELSE 0)
            + (IF \/ Includes(text, W_great) \/ Includes(text, W_good)
                  \/ Includes(text, W_nice) THEN 1 ELSE 0)
            + AppealScoreAdditive(Tail(phrases))

RECURSIVE AppealScore(_)
AppealScore(phrases) ==
    LET
        W_nice == <<"n", "i", "c", "e">>
        W_good == <<"g", "o", "o", "d">>
        W_great == <<"g", "r", "e", "a", "t">>
        W_incredible == <<"i", "n", "c", "r", "e", "d", "i", "b", "l", "e">>
        W_amazing == <<"a", "m", "a", "z", "i", "n", "g">>
        W_epic == <<"e", "p", "i", "c">>
    IN
    IF phrases = <<>> THEN 0
    ELSE LET text == ToLowerCase(Head(phrases).text)
         IN (IF \/ Includes(text, W_epic) \/ Includes(text, W_amazing)
                \/ Includes(text, W_incredible) THEN 2
             ELSE IF \/ Includes(text, W_great) \/ Includes(text, W_good)
                     \/ Includes(text, W_nice) THEN 1
             ELSE 0) + AppealScore(Tail(phrases))

\* a property holding an object (not undefined, not null)
IsSet(o, f) == Has(o, f) /\ o[f] # Null /\ o[f] # Undefined

\* the context with the tone switch entered from confidence 0.7 on
generateGamingContextAtThreshold(highlight) ==
    LET
        \* the switch on the sentiment, entered when confidence >= 0.7
        ToneOf(titleSentiment) ==
            IF Has(titleSentiment, "confidence") /\ RatLe(Rat(7, 10), titleSentiment.confidence)
            THEN CASE titleSentiment.sentiment = "POSITIVE" -> "exciting"
                   [] titleSentiment.sentiment = "NEGATIVE" -> "intense"
                   [] titleSentiment.sentiment = "NEUTRAL" -> "balanced"
                   [] OTHER -> "neutral"
            ELSE "neutral"
    IN
    LET entities == IF Has(highlight, "titleEntities")
                    THEN highlight.titleEntities ELSE <<>>
        phrases == IF Has(highlight, "titleKeyPhrases")
                   THEN highlight.titleKeyPhrases ELSE <<>>
    IN IF \/ \E i \in DOMAIN entities : ~Has(entities[i], "text")
          \/ \E i \in DOMAIN phrases : ~Has(phrases[i], "text")
       THEN [threw |-> TRUE]
       ELSE [threw |-> FALSE,
             value |->
               [emotionalTone |->
                    IF IsSet(highlight, "titleSentiment")
                    THEN ToneOf(highlight.titleSentiment) ELSE "neutral",
                gameplayType |-> GameplayTypeFrom("general", entities),
                audienceAppeal |->
                    IF AppealScore(phrases) >= 3 THEN "high"
                    ELSE IF AppealScore(phrases) >= 1 THEN "medium"
                    ELSE "broad"]]

\* [threw |-> TRUE] when text.toLowerCase() is called on undefined,
\* else [threw |-> FALSE, value |-> context]
generateGamingContext(highlight) ==
    LET
        \* the switch on the sentiment, entered when confidence > 0.7
        ToneOf(titleSentiment) ==
            IF Has(titleSentiment, "confidence") /\ RatLt(Rat(7, 10), titleSentiment.confidence)
            THEN CASE titleSentiment.sentiment = "POSITIVE" -> "exciting"
                   [] titleSentiment.sentiment = "NEGATIVE" -> "intense"
                   [] titleSentiment.sentiment = "NEUTRAL" -> "balanced"
                   [] OTHER -> "neutral"
            ELSE "neutral"
    IN
    LET entities == IF Has(highlight, "titleEntities")
                    THEN highlight.titleEntities ELSE <<>>
        phrases == IF Has(highlight, "titleKeyPhrases")
                   THEN highlight.titleKeyPhrases ELSE <<>>
    IN IF \/ \E i \in DOMAIN entities : ~Has(entities[i], "text")
          \/ \E i \in DOMAIN phrases : ~Has(phrases[i], "text")
       THEN [threw |-> TRUE]
       ELSE [threw |-> FALSE,
             value |->
               [emotionalTone |->
                    IF IsSet(highlight, "titleSentiment")
                    THEN ToneOf(highlight.titleSentiment) ELSE "neutral",
                gameplayType |-> GameplayTypeFrom("general", entities),
                audienceAppeal |->
                    IF AppealScore(phrases) >= 3 THEN "high"
                    ELSE IF AppealScore(phrases) >= 1 THEN "medium"
                    ELSE "broad"]]

RECURSIVE ComprehendLoop(_, _, _, _, _)
\* the for-of loop from candidate i on; acc = enhancedHighlights so far
ComprehendLoop(hs, outcomes, i, acc, calls) ==
    LET
        \* the assignments of the title analysis to the copy
        WithTitleAnalysis(enhanced, titleAnalysis) ==
            Assign(Assign(Assign(enhanced,
                "titleSentiment", titleAnalysis.sentiment),
                "titleEntities", titleAnalysis.entities),
                "titleKeyPhrases", titleAnalysis.keyPhrases)
    IN
    IF i > Len(hs) THEN [threw |-> FALSE, result |-> acc, calls |-> calls]
    ELSE LET highlight == hs[i]
             titled == TruthyString(highlight, "aiTitle")
             described == TruthyString(highlight, "description")
             e1 == IF titled
                   THEN WithTitleAnalysis(highlight,
                            analyzeTextWithComprehend(outcomes[i]))
                   ELSE highlight
             e2 == IF described
                   THEN LET d == analyzeTextWithComprehend(outcomes[i])
                        IN Assign(Assign(e1, "descriptionSentiment", d.sentiment),
                                  "descriptionEntities", d.entities)
                   ELSE e1
             n == calls + (IF titled THEN 1 ELSE 0) + (IF described THEN 1 ELSE 0)
             gc == generateGamingContext(e2)
         IN IF gc.threw THEN [threw |-> TRUE, result |-> acc, calls |-> n]
            ELSE ComprehendLoop(hs, outcomes, i + 1,
                     Append(acc, Assign(Assign(e2, "gamingContext", gc.value),
                                        "comprehendEnhanced", TRUE)), n)

enhanceWithComprehend(hs, outcomes) ==
    LET r == ComprehendLoop(hs, outcomes, 1, <<>>, 0)
    IN IF r.threw
       THEN [i \in 1..Len(hs) |-> Assign(hs[i], "comprehendEnhanced", FALSE)]
       ELSE r.result

NotCalled == [sentiment |-> Undefined, entities |-> Undefined, keyPhrases |-> Undefined]

(***************************************************************************)
(* storeHighlightMetadata                                                  *)
(***************************************************************************)
SegmentKey == <<"games", "game-1", "final.mp4">>

extractGameIdFromKey(parts) == IF Len(parts) >= 2 THEN parts[2] ELSE "unknown-game"

\* copy of an optional property (an undefined value stays unset)
CopyIfSet(item, highlight, f) ==
    IF Has(highlight, f) THEN Assign(item, f, highlight[f]) ELSE item

\* the Item of one PutRequest; index is 1-based, the id carries index - 1
StoreItem(highlight, index, timestamp) ==
    LET
        \* the segment the handler was invoked for; the key is held as key.split('/')
        SegmentBucket == "videos"
    IN
    LET gameId == extractGameIdFromKey(SegmentKey)
        base ==
          [highlightId |-> <<gameId, timestamp, index - 1>>,
           timestamp |-> timestamp,
           gameId |-> gameId,
           sourceVideo |-> [bucket |-> SegmentBucket, key |-> SegmentKey],
           startTime |-> highlight.startTime,
           endTime |-> highlight.endTime,
           duration |-> highlight.duration,
           confidence |-> highlight.confidence,
           labels |-> highlight.labels,
           personCount |-> IF Has(highlight, "personCount")
                           THEN highlight.personCount ELSE 0,
           excitementLevel |-> IF TruthyNumber(highlight, "excitementLevel")
                               THEN highlight.excitementLevel ELSE RatInt(5),
           playType |-> IF TruthyString(highlight, "playType")
                        THEN highlight.playType ELSE "general",
           aiTitle |-> IF TruthyString(highlight, "aiTitle")
                       THEN highlight.aiTitle ELSE "Highlight " \o ToString(index),
           aiEnhanced |-> Has(highlight, "aiEnhanced") /\ highlight.aiEnhanced,
           comprehendEnhanced |-> /\ Has(highlight, "comprehendEnhanced")
                                  /\ highlight.comprehendEnhanced,
           processed |-> TRUE,
           clipGenerated |-> FALSE,
           clipStatus |-> "pending"]
    IN CopyIfSet(CopyIfSet(CopyIfSet(CopyIfSet(base,
           highlight, "titleSentiment"),
           highlight, "titleEntities"),
           highlight, "titleKeyPhrases"),
           highlight, "gamingContext")

(***************************************************************************)
(* The handler                                                             *)
(***************************************************************************)
Jobs == {"label", "person"}

JobResults(j) ==
    LET
        PipelinePersonInputs ==
            {[JobStatus |-> "SUCCEEDED"],
             [JobStatus |-> "SUCCEEDED",
              Persons |-> [k \in 1..MaxPersonIndex |-> PersonSample(k, 1000)]]}
        PipelineLabelInputs ==
            {LabelResponse(I) : I \in {{}, {1, 2, 4}, {1, 2, 4, 5}, {1, 2, 4, 7, 8, 10}}}
    IN
                 IF j = "label" THEN PipelineLabelInputs ELSE PipelinePersonInputs

ErrorResponse(message) == [statusCode |-> 500, error |-> TRUE, details |-> message]

\* an invocation for an uploaded MP4 file: { bucket, key }
DirectUpload == [bucket |-> <<"v", "i", "d", "e", "o", "s">>, key |-> <<"g", "a", "m", "e", "s", "/", "g", "a", "m", "e", "-", "1", "/", "f", "i", "n", "a", "l", ".", "m", "p", "4">>]

\* the events the handler is invoked with: the two kinds of well-formed
\* segment reference and the malformed ones (no event takes the demo path
\* of line 501, whose key includes 'live-streams/')
HandlerEvents ==
    LET K_Mov == <<"g", "a", "m", "e", "s", "/", "g", "a", "m", "e", "-", "1", "/", "f", "i", "n", "a", "l", ".", "m", "o", "v">>
        K_Up == <<"g", "a", "m", "e", "s", "/", ".", ".", "/", "f", "i", "n", "a", "l", ".", "m", "p", "4">>
        K_Root == <<"/", "f", "i", "n", "a", "l", ".", "m", "p", "4">>
        K_PaddedRoot == <<" ", "/", "f", "i", "n", "a", "l", ".", "m", "p", "4">>
        K_UpMov == <<".", ".", "/", "f", "i", "n", "a", "l", ".", "m", "o", "v">>
        Blank == <<" ", " ">>
    IN
    {DirectUpload,
     [bucket |-> DirectUpload.bucket, key |-> K_Mov, source |-> "kinesis-video-streams"],
     [key |-> DirectUpload.key],
     [bucket |-> <<>>, key |-> DirectUpload.key],
     [bucket |-> Blank, key |-> DirectUpload.key],
     [bucket |-> DirectUpload.bucket],
     [bucket |-> DirectUpload.bucket, key |-> <<>>],
     [bucket |-> DirectUpload.bucket, key |-> Blank],
     [bucket |-> DirectUpload.bucket, key |-> K_Mov],
     [bucket |-> DirectUpload.bucket, key |-> K_Mov, source |-> "direct-upload"],
     [bucket |-> DirectUpload.bucket, key |-> K_Up],
     [bucket |-> DirectUpload.bucket, key |-> K_Root],
     [bucket |-> DirectUpload.bucket, key |-> K_PaddedRoot],
     [bucket |-> DirectUpload.bucket, key |-> K_UpMov, source |-> "kinesis-video-streams"],
     [bucket |-> <<>>, key |-> <<>>,
      detail |-> [bucket |-> [name |-> DirectUpload.bucket], object |-> [key |-> K_Root]]],
     [source |-> "kinesis-video-streams"]}

Init ==
    /\ labelResults = Undefined
    /\ personResults = Undefined
    /\ labelTimestamps = <<>>
    /\ timestamps = <<>>
    /\ ti = 0
    /\ currentCluster = <<>>
    /\ lastTimestamp = 0
    /\ potentialHighlights = <<>>
    /\ apc = "idle"
    /\ pc = "validate"
    /\ analysisEvent \in HandlerEvents
    /\ jobStatus = [j \in Jobs |-> "NONE"]
    /\ jobData = [j \in Jobs |-> Undefined]
    /\ submits = [j \in Jobs |-> 0]
    /\ polls = [j \in Jobs |-> 0]
    /\ lastResponse = Undefined
    /\ now = 0
    /\ enhancedHighlights = <<>>
    /\ comprehendEnhancedHighlights = <<>>
    /\ bedrockResponse = Undefined
    /\ bedrockCalls = 0
    /\ comprehendOutcome = <<>>
    /\ comprehendCalls = 0
    /\ table = {}
    /\ batchStart = 0
    /\ putRequests = <<>>
    /\ response = Undefined
    /\ ClipIdle
    /\ RankIdle

\* the path test made on the key as received, not on the trimmed key
ValidateUntrimmedPath ==
    LET
        \* String.prototype.trim, for blanks
        Trim(s) ==
            LET at == {i \in DOMAIN s : s[i] # " "}
            IN IF at = {} THEN <<>>
               ELSE SubSeq(s, CHOOSE i \in at : \A k \in at : i <= k,
                              CHOOSE i \in at : \A k \in at : k <= i)
        EndsWith(s, suffix) ==
            Len(s) >= Len(suffix) /\ SubSeq(s, Len(s) - Len(suffix) + 1, Len(s)) = suffix
        StartsWith(s, prefix) ==
            Len(s) >= Len(prefix) /\ SubSeq(s, 1, Len(prefix)) = prefix
        \* event.bucket || event.detail?.bucket?.name, and the same for the key
        Truthy(o, f) == Has(o, f) /\ o[f] # <<>>
        InDetail(f, g) ==
            IF /\ Has(analysisEvent, "detail") /\ Has(analysisEvent.detail, f)
               /\ Has(analysisEvent.detail[f], g)
            THEN analysisEvent.detail[f][g] ELSE <<>>
        bucket == IF Truthy(analysisEvent, "bucket") THEN analysisEvent.bucket
                  ELSE InDetail("bucket", "name")
        key == IF Truthy(analysisEvent, "key") THEN analysisEvent.key
               ELSE InDetail("object", "key")
        isKinesisSegment ==
            Has(analysisEvent, "source") /\ analysisEvent.source = "kinesis-video-streams"
        sanitizedKey == Trim(key)
        thrown ==
            IF Trim(bucket) = <<>> THEN "Invalid or missing bucket name"
            ELSE IF Trim(key) = <<>> THEN "Invalid or missing object key"
            ELSE IF /\ ~isKinesisSegment
                    /\ ~EndsWith(ToLowerCase(sanitizedKey), <<".", "m", "p", "4">>)
                 THEN "Only MP4 files are supported for direct uploads"
            ELSE IF \/ Includes(key, <<".", ".">>)
                    \/ StartsWith(key, <<"/">>)
                 THEN "Invalid file path detected"
            ELSE "none"
    IN
    /\ pc = "validate"
    /\ IF thrown = "none"
       THEN pc' = "labelStart" /\ UNCHANGED response
       ELSE pc' = "error" /\ response' = ErrorResponse(thrown)
    /\ UNCHANGED <<otherVars, analysisEvent, clusterVars, jobStatus, jobData, submits, polls,
                   lastResponse, now, enhancedHighlights, comprehendEnhancedHighlights,
                   bedrockResponse, bedrockCalls, comprehendOutcome, comprehendCalls,
                   table, batchStart, putRequests>>

\* lines 461-492 and the catch block: the event is validated
Validate ==
    LET
        \* String.prototype.trim, for blanks
        Trim(s) ==
            LET at == {i \in DOMAIN s : s[i] # " "}
            IN IF at = {} THEN <<>>
               ELSE SubSeq(s, CHOOSE i \in at : \A k \in at : i <= k,
                              CHOOSE i \in at : \A k \in at : k <= i)
        EndsWith(s, suffix) ==
            Len(s) >= Len(suffix) /\ SubSeq(s, Len(s) - Len(suffix) + 1, Len(s)) = suffix
        StartsWith(s, prefix) ==
            Len(s) >= Len(prefix) /\ SubSeq(s, 1, Len(prefix)) = prefix
        \* event.bucket || event.detail?.bucket?.name, and the same for the key
        Truthy(o, f) == Has(o, f) /\ o[f] # <<>>
        InDetail(f, g) ==
            IF /\ Has(analysisEvent, "detail") /\ Has(analysisEvent.detail, f)
               /\ Has(analysisEvent.detail[f], g)
            THEN analysisEvent.detail[f][g] ELSE <<>>
        bucket == IF Truthy(analysisEvent, "bucket") THEN analysisEvent.bucket
                  ELSE InDetail("bucket", "name")
        key == IF Truthy(analysisEvent, "key") THEN analysisEvent.key
               ELSE InDetail("object", "key")
        isKinesisSegment ==
            Has(analysisEvent, "source") /\ analysisEvent.source = "kinesis-video-streams"
        sanitizedKey == Trim(key)
        thrown ==
            IF Trim(bucket) = <<>> THEN "Invalid or missing bucket name"
            ELSE IF Trim(key) = <<>> THEN "Invalid or missing object key"
            ELSE IF /\ ~isKinesisSegment
                    /\ ~EndsWith(ToLowerCase(sanitizedKey), <<".", "m", "p", "4">>)
                 THEN "Only MP4 files are supported for direct uploads"
            ELSE IF \/ Includes(sanitizedKey, <<".", ".">>)
                    \/ StartsWith(sanitizedKey, <<"/">>)
                 THEN "Invalid file path detected"
            ELSE "none"
    IN
    /\ pc = "validate"
    /\ IF thrown = "none"
       THEN pc' = "labelStart" /\ UNCHANGED response
       ELSE pc' = "error" /\ response' = ErrorResponse(thrown)
    /\ UNCHANGED <<otherVars, analysisEvent, clusterVars, jobStatus, jobData, submits, polls,
                   lastResponse, now, enhancedHighlights, comprehendEnhancedHighlights,
                   bedrockResponse, bedrockCalls, comprehendOutcome, comprehendCalls,
                   table, batchStart, putRequests>>

\* lines 510-511 and 517-518: startLabelDetection / startPersonTracking
StartJob(j) ==
    /\ pc = j \o "Start"
    /\ jobStatus' = [jobStatus EXCEPT ![j] = "IN_PROGRESS"]
    /\ submits' = [submits EXCEPT ![j] = @ + 1]
    /\ pc' = j \o "Poll"
    /\ UNCHANGED <<otherVars, analysisEvent, clusterVars, jobData, polls, lastResponse, now,
                   enhancedHighlights, comprehendEnhancedHighlights,
                   bedrockResponse, bedrockCalls, comprehendOutcome,
                   comprehendCalls, table, batchStart, putRequests, response>>

\* the Start*Command is rejected: the handler's catch block answers
StartJobRejected(j) ==
    /\ pc = j \o "Start"
    /\ submits' = [submits EXCEPT ![j] = @ + 1]
    /\ pc' = "error"
    /\ response' = ErrorResponse("start rejected")
    /\ UNCHANGED <<otherVars, analysisEvent, clusterVars, jobStatus, jobData, polls, lastResponse, now,
                   enhancedHighlights, comprehendEnhancedHighlights,
                   bedrockResponse, bedrockCalls, comprehendOutcome,
                   comprehendCalls, table, batchStart, putRequests>>

\* Rekognition finishes a job
JobSucceeds(j) ==
    /\ jobStatus[j] = "IN_PROGRESS"
    /\ \E data \in JobResults(j) :
          jobData' = [jobData EXCEPT ![j] = data]
    /\ jobStatus' = [jobStatus EXCEPT ![j] = "SUCCEEDED"]
    /\ UNCHANGED <<otherVars, analysisEvent, clusterVars, pc, submits, polls, lastResponse, now,
                   enhancedHighlights, comprehendEnhancedHighlights,
                   bedrockResponse, bedrockCalls, comprehendOutcome,
                   comprehendCalls, table, batchStart, putRequests, response>>

JobFails(j) ==
    /\ jobStatus[j] = "IN_PROGRESS"
    /\ jobStatus' = [jobStatus EXCEPT ![j] = "FAILED"]
    /\ UNCHANGED <<otherVars, analysisEvent, clusterVars, pc, jobData, submits, polls, lastResponse, now,
                   enhancedHighlights, comprehendEnhancedHighlights,
                   bedrockResponse, bedrockCalls, comprehendOutcome,
                   comprehendCalls, table, batchStart, putRequests, response>>

\* what Get*Detection answers for the job right now
GetJob(j) ==
    IF jobStatus[j] = "SUCCEEDED" THEN jobData[j] ELSE [JobStatus |-> jobStatus[j]]

\* the loop left after the first answer, whatever the job status
PollBranchReturnsAlways(resp) == "return"

PollBranchReturnsFailed(resp) ==
    IF resp.JobStatus \in {"SUCCEEDED", "FAILED"} THEN "return" ELSE "wait"

PollBranchIgnoresFailed(resp) ==
    IF resp.JobStatus = "SUCCEEDED" THEN "return" ELSE "wait"

\* lines 628-637: what one turn of the while loop does with the response
PollBranch(resp) ==
    IF resp.JobStatus = "SUCCEEDED" THEN "return"
    ELSE IF resp.JobStatus = "FAILED" THEN "throw"
    ELSE "wait"

\* lines 619-637: one turn of the loop of waitForJobCompletion, up to the
\* return, the throw (caught by the handler) or the start of the 5 s wait
PollJob(j) ==
    /\ pc = j \o "Poll"
    /\ GetJob(j).JobStatus \notin {"SUCCEEDED", "FAILED"}
           => now < MaxPolls * PollIntervalMs
    /\ polls' = [polls EXCEPT ![j] = @ + 1]
    /\ lastResponse' = GetJob(j)
    /\ CASE PollBranch(GetJob(j)) = "return" ->
              /\ IF j = "label"
                 THEN labelResults' = GetJob(j) /\ UNCHANGED personResults
                 ELSE personResults' = GetJob(j) /\ UNCHANGED labelResults
              /\ pc' = IF j = "label" THEN "personStart" ELSE "analyze"
              /\ UNCHANGED response
         [] PollBranch(GetJob(j)) = "throw" ->
              /\ pc' = "error"
              /\ response' = ErrorResponse(j \o " detection job failed")
              /\ UNCHANGED <<labelResults, personResults>>
         [] OTHER ->
              /\ pc' = j \o "Wait"
              /\ UNCHANGED <<labelResults, personResults, response>>
    /\ UNCHANGED <<otherVars, analysisEvent, labelTimestamps, timestamps, ti, currentCluster,
                   lastTimestamp, potentialHighlights, apc, jobStatus, jobData, submits, now,
                   enhancedHighlights, comprehendEnhancedHighlights,
                   bedrockResponse, bedrockCalls, comprehendOutcome,
                   comprehendCalls, table, batchStart, putRequests>>

\* the wait ends the loop with a timeout instead of polling again
WakeGivingUp(j) ==
    /\ pc = j \o "Wait"
    /\ now' = now + PollIntervalMs
    /\ pc' = "error"
    /\ UNCHANGED <<otherVars, analysisEvent, clusterVars, jobStatus, jobData, submits, polls, lastResponse,
                   enhancedHighlights, comprehendEnhancedHighlights,
                   bedrockResponse, bedrockCalls, comprehendOutcome,
                   comprehendCalls, table, batchStart, putRequests, response>>

\* line 636: the 5 s wait is over, the loop polls again
Wake(j) ==
    /\ pc = j \o "Wait"
    /\ now' = now + PollIntervalMs
    /\ pc' = j \o "Poll"
    /\ UNCHANGED <<otherVars, analysisEvent, clusterVars, jobStatus, jobData, submits, polls, lastResponse,
                   enhancedHighlights, comprehendEnhancedHighlights,
                   bedrockResponse, bedrockCalls, comprehendOutcome,
                   comprehendCalls, table, batchStart, putRequests, response>>

\* line 524
Analyze ==
    /\ pc = "analyze"
    /\ potentialHighlights' = analyzeResults(labelResults, personResults)
    /\ pc' = "bedrock"
    /\ UNCHANGED <<otherVars, analysisEvent, labelResults, personResults, labelTimestamps,
                   timestamps, ti, currentCluster, lastTimestamp, apc, jobStatus, jobData, submits,
                   polls, lastResponse, now, enhancedHighlights,
                   comprehendEnhancedHighlights, bedrockResponse, bedrockCalls,
                   comprehendOutcome, comprehendCalls, table, batchStart,
                   putRequests, response>>

\* line 527: enhanceWithBedrock with whatever InvokeModel does
Bedrock ==
    LET
        BedrockResponses ==
            LET
                TextReply(doc) == [body |-> Json([content |-> <<[type |-> "text", text |-> doc]>>])]
                InsightLists ==
                    LET
                        InsightUniverse ==
                            LET
                                \* an entry with an empty and two missing properties
                                PartialInsight == [excitementLevel |-> RatInt(0), playType |-> "skill_move"]
                                SaveInsight == [excitementLevel |-> RatInt(7), playType |-> "save",
                                                title |-> "Epic Save", targetAudience |-> "keepers"]
                            IN
                                           {GoalInsight, SaveInsight, PartialInsight}
                    IN
                                UNION {[1..n -> InsightUniverse] : n \in 0..MaxInsights}
                \* a JSON text is either not parseable or stands for a value
                NotJson == [json |-> FALSE]
            IN
            {[throws |-> TRUE],
             [body |-> NotJson],
             [body |-> Json(EmptyObject)],
             [body |-> Json([content |-> <<>>])],
             [body |-> Json([content |-> <<[type |-> "text"]>>])],
             TextReply(NotJson),
             TextReply(Json(EmptyObject))}
            \cup {TextReply(Json([highlights |-> l])) : l \in InsightLists}
    IN
    /\ pc = "bedrock"
    /\ \E r \in BedrockResponses :
          /\ bedrockResponse' = r
          /\ enhancedHighlights' = enhanceWithBedrock(potentialHighlights, r)
    /\ bedrockCalls' = bedrockCalls + 1
    /\ pc' = "comprehend"
    /\ UNCHANGED <<otherVars, analysisEvent, clusterVars, jobStatus, jobData, submits, polls, lastResponse,
                   now, comprehendEnhancedHighlights, comprehendOutcome,
                   comprehendCalls, table, batchStart, putRequests, response>>

\* the outcomes Comprehend can have for the texts of the list: one per
\* candidate that has a text to analyze
OutcomesFor(hs) ==
    LET
        ComprehendOutcomes ==
            LET
                NoPhrases == [KeyPhrases |-> <<>>]
                EpicPhrases ==
                    LET
                        T_NiceMove == <<"n", "i", "c", "e", " ", "m", "o", "v", "e">>
                        T_EpicSave == <<"E", "P", "I", "C", " ", "s", "a", "v", "e">>
                    IN
                               [KeyPhrases |-> <<[Text |-> T_EpicSave, Score |-> Rat(9, 10)],
                                                 [Text |-> T_NiceMove, Score |-> Rat(8, 10)]>>]
                TextlessEntities == [Entities |-> <<[Type |-> "OTHER", Score |-> Rat(5, 10)]>>]
                GoalEntities ==
                    LET
                        T_Goal == <<"G", "o", "a", "l">>
                    IN
                                [Entities |-> <<[Text |-> T_Goal, Type |-> "EVENT", Score |-> Rat(9, 10)]>>]
                MixedCaseSentiment == [Sentiment |-> "NEUTRAL",
                                       SentimentScore |-> [Neutral |-> Rat(8, 10), Positive |-> Rat(2, 10)]]
                \* what the text-analytics collaborator can answer for one text
                PositiveSentiment == [Sentiment |-> "POSITIVE",
                                      SentimentScore |-> [POSITIVE |-> Rat(9, 10), NEGATIVE |-> Rat(1, 10)]]
            IN
            {[sentiment |-> Throws, entities |-> Undefined, keyPhrases |-> Undefined],
             [sentiment |-> PositiveSentiment, entities |-> Throws, keyPhrases |-> Undefined],
             [sentiment |-> PositiveSentiment, entities |-> GoalEntities, keyPhrases |-> Throws],
             [sentiment |-> PositiveSentiment, entities |-> GoalEntities, keyPhrases |-> EpicPhrases],
             [sentiment |-> MixedCaseSentiment, entities |-> TextlessEntities, keyPhrases |-> NoPhrases]}
    IN
    {o \in [1..Len(hs) -> ComprehendOutcomes \cup {NotCalled}] :
        \A i \in 1..Len(hs) :
            (o[i] = NotCalled) <=> ~(\/ TruthyString(hs[i], "aiTitle")
                                     \/ TruthyString(hs[i], "description"))}

\* line 530: enhanceWithComprehend
Comprehend ==
    /\ pc = "comprehend"
    /\ \E o \in OutcomesFor(enhancedHighlights) :
          /\ comprehendOutcome' = o
          /\ comprehendEnhancedHighlights' =
                 enhanceWithComprehend(enhancedHighlights, o)
          /\ comprehendCalls' =
                 comprehendCalls + ComprehendLoop(enhancedHighlights, o, 1, <<>>, 0).calls
    /\ pc' = "store"
    /\ UNCHANGED <<otherVars, analysisEvent, clusterVars, jobStatus, jobData, submits, polls, lastResponse,
                   now, enhancedHighlights, bedrockResponse, bedrockCalls, table,
                   batchStart, putRequests, response>>

\* lines 789-823: the put requests of storeHighlightMetadata
PrepareStore ==
    /\ pc = "store"
    /\ putRequests' = [i \in 1..Len(comprehendEnhancedHighlights) |->
                          StoreItem(comprehendEnhancedHighlights[i], i, now)]
    /\ batchStart' = 0
    /\ pc' = "storeBatch"
    /\ UNCHANGED <<otherVars, analysisEvent, clusterVars, jobStatus, jobData, submits, polls, lastResponse,
                   now, enhancedHighlights, comprehendEnhancedHighlights,
                   bedrockResponse, bedrockCalls, comprehendOutcome,
                   comprehendCalls, table, response>>

\* the loop stepping one item too far after each batch
WriteBatchSkipping ==
    LET
        \* the table after a BatchWrite of puts: an item replaces the one with its key
        BatchWrite(tbl, batch) ==
            {it \in tbl : \A k \in DOMAIN batch : batch[k].highlightId # it.highlightId}
            \cup Range(batch)
        \* putRequests.slice(i, i + 25), i 0-based
        Batch(requests, i) ==
            SubSeq(requests, i + 1, IF i + BatchSize < Len(requests)
                                    THEN i + BatchSize ELSE Len(requests))
    IN
    /\ pc = "storeBatch"
    /\ batchStart < Len(putRequests)
    /\ table' = BatchWrite(table, Batch(putRequests, batchStart))
    /\ batchStart' = batchStart + BatchSize + 1
    /\ UNCHANGED <<otherVars, analysisEvent, clusterVars, pc, jobStatus, jobData, submits, polls,
                   lastResponse, now, enhancedHighlights,
                   comprehendEnhancedHighlights, bedrockResponse, bedrockCalls,
                   comprehendOutcome, comprehendCalls, putRequests, response>>

\* lines 826-834: one BatchWriteCommand that succeeds
WriteBatch ==
    LET
        \* the table after a BatchWrite of puts: an item replaces the one with its key
        BatchWrite(tbl, batch) ==
            {it \in tbl : \A k \in DOMAIN batch : batch[k].highlightId # it.highlightId}
            \cup Range(batch)
        \* putRequests.slice(i, i + 25), i 0-based
        Batch(requests, i) ==
            SubSeq(requests, i + 1, IF i + BatchSize < Len(requests)
                                    THEN i + BatchSize ELSE Len(requests))
    IN
    /\ pc = "storeBatch"
    /\ batchStart < Len(putRequests)
    /\ table' = BatchWrite(table, Batch(putRequests, batchStart))
    /\ batchStart' = batchStart + BatchSize
    /\ UNCHANGED <<otherVars, analysisEvent, clusterVars, pc, jobStatus, jobData, submits, polls,
                   lastResponse, now, enhancedHighlights,
                   comprehendEnhancedHighlights, bedrockResponse, bedrockCalls,
                   comprehendOutcome, comprehendCalls, putRequests, response>>

\* one BatchWriteCommand that is rejected: the handler's catch block answers
WriteBatchRejected ==
    /\ pc = "storeBatch"
    /\ batchStart < Len(putRequests)
    /\ pc' = "error"
    /\ response' = ErrorResponse("batch write rejected")
    /\ UNCHANGED <<otherVars, analysisEvent, clusterVars, jobStatus, jobData, submits, polls, lastResponse,
                   now, enhancedHighlights, comprehendEnhancedHighlights,
                   bedrockResponse, bedrockCalls, comprehendOutcome,
                   comprehendCalls, table, batchStart, putRequests>>

\* lines 536-547: all batches written, the handler answers 200
Respond ==
    /\ pc = "storeBatch"
    /\ batchStart >= Len(putRequests)
    /\ pc' = "done"
    /\ response' = [statusCode |-> 200,
                    highlightsCount |-> Len(potentialHighlights),
                    highlights |-> comprehendEnhancedHighlights]
    /\ UNCHANGED <<otherVars, analysisEvent, clusterVars, jobStatus, jobData, submits, polls, lastResponse,
                   now, enhancedHighlights, comprehendEnhancedHighlights,
                   bedrockResponse, bedrockCalls, comprehendOutcome,
                   comprehendCalls, table, batchStart, putRequests>>

Next ==
    \/ Validate
    \/ \E j \in Jobs : StartJob(j)
    \/ \E j \in Jobs : StartJobRejected(j)
    \/ \E j \in Jobs : JobSucceeds(j)
    \/ \E j \in Jobs : JobFails(j)
    \/ \E j \in Jobs : PollJob(j)
    \/ \E j \in Jobs : Wake(j)
    \/ Analyze
    \/ Bedrock
    \/ Comprehend
    \/ PrepareStore
    \/ WriteBatch
    \/ WriteBatchRejected
    \/ Respond

Spec == Init /\ [][Next]_vars

(***************************************************************************)
(* Claims about the job poller                                             *)
(***************************************************************************)
SawFailed == Has(lastResponse, "JobStatus") /\ lastResponse.JobStatus = "FAILED"

\* C4: once a poll of the label or the person job has reported FAILED, the
\* handler has ended with an error response, no enrichment collaborator has
\* been called, nothing has been written to the store, and from then on no
\* job is submitted or polled and nothing is written.
C4_FailedJobAborts ==
    /\ [](SawFailed =>
            /\ pc = "error"
            /\ response.statusCode = 500 /\ response.error
            /\ bedrockCalls = 0
            /\ comprehendCalls = 0
            /\ putRequests = <<>>
            /\ table = {}
            /\ \A j \in Jobs : submits[j] <= 1)
    /\ [][SawFailed => UNCHANGED <<submits, polls, bedrockCalls, comprehendCalls,
                                   table, pc>>]_vars

\* the person-tracking job failed after the label job had delivered detections
C4_Witness ==
    /\ SawFailed
    /\ pc = "error"
    /\ polls["person"] >= 1
    /\ Has(labelResults, "Labels") /\ Len(labelResults.Labels) >= 3

ResultOf(j) == IF j = "label" THEN labelResults ELSE personResults

\* C5: a turn of the polling loop returns exactly when the poll reported
\* SUCCEEDED, and what it returns is that poll's response; a poll that reports
\* neither SUCCEEDED nor FAILED is followed by the fixed wait and then by a
\* poll of the same job; no result of an unfinished job is ever returned.
C5_ReturnsOnlySucceeded ==
    /\ [][\A j \in Jobs :
            /\ (pc = j \o "Poll" /\ pc' # pc) =>
                 /\ lastResponse' = GetJob(j)
                 /\ (ResultOf(j)' # ResultOf(j)) <=> (GetJob(j).JobStatus = "SUCCEEDED")
                 /\ (GetJob(j).JobStatus = "SUCCEEDED") =>
                        /\ ResultOf(j)' = lastResponse'
                        /\ pc' = (IF j = "label" THEN "personStart" ELSE "analyze")
                 /\ (GetJob(j).JobStatus \notin {"SUCCEEDED", "FAILED"}) =>
                        pc' = j \o "Wait"
            /\ (pc = j \o "Wait" /\ pc' # pc) =>
                 /\ pc' = j \o "Poll"
                 /\ now' = now + PollIntervalMs
                 /\ polls' = polls /\ submits' = submits]_vars
    /\ [](\A j \in Jobs :
            ResultOf(j) # Undefined =>
                /\ ResultOf(j).JobStatus = "SUCCEEDED"
                /\ jobStatus[j] = "SUCCEEDED"
                /\ ResultOf(j) = jobData[j])

\* the label job was polled while in progress, waited for, and then returned
C5_Witness ==
    /\ labelResults # Undefined
    /\ polls["label"] >= 2
    /\ now >= PollIntervalMs
    /\ pc = "personStart"

(***************************************************************************)
(* Claims about the enrichment merge layer                                 *)
(***************************************************************************)
AfterBedrock == pc \in {"comprehend", "store", "storeBatch", "done"} \/
                (pc = "error" /\ bedrockCalls > 0)
AfterComprehend == pc \in {"store", "storeBatch", "done"} \/
                   (pc = "error" /\ bedrockCalls > 0)

RequiredFields == {"excitementLevel", "playType", "aiTitle", "targetAudience"}

\* C6: every highlight that leaves the merge layer has excitementLevel,
\* playType, title (aiTitle) and targetAudience, whatever the collaborators did.
C6_EnrichmentTotal ==
    AfterComprehend =>
        \A i \in DOMAIN comprehendEnhancedHighlights :
            RequiredFields \subseteq DOMAIN comprehendEnhancedHighlights[i]

\* x = confidence / 10, stated on the fractions
IsTenthOf(x, confidence) == x.num * confidence.den * 10 = confidence.num * x.den

\* the values of the catch block on candidate c
HasFallbackValues(h, c) ==
    /\ Has(h, "aiEnhanced") /\ h.aiEnhanced = FALSE
    /\ Has(h, "playType") /\ h.playType = "detected"
    /\ Has(h, "excitementLevel") /\ IsTenthOf(h.excitementLevel, c.confidence)
    /\ Has(h, "aiTitle") /\ h.aiTitle = "Auto-detected Highlight"

\* the item stored for position i (1-based) of this invocation
StoredAt(i) == {it \in table : it.highlightId[3] = i - 1}

\* C7: when the InvokeModel call throws, every candidate comes back with
\* aiEnhanced = false, playType "detected", excitementLevel = confidence / 10,
\* title "Auto-detected Highlight" and its clustering fields unchanged; the
\* handler goes on to the text-analytics stage and to the store, and fails
\* only if the store rejects a write.
C7_ThrowFallsBack ==
    (AfterBedrock /\ Has(bedrockResponse, "throws")) =>
        /\ Len(enhancedHighlights) = Len(potentialHighlights)
        /\ \A i \in DOMAIN potentialHighlights :
              /\ HasFallbackValues(enhancedHighlights[i], potentialHighlights[i])
              /\ \A f \in DOMAIN potentialHighlights[i] :
                    enhancedHighlights[i][f] = potentialHighlights[i][f]
        /\ pc = "error" => response.details = "batch write rejected"
        /\ (AfterComprehend /\ potentialHighlights # <<>>) => comprehendCalls >= 1
        /\ pc = "done" =>
              \A i \in DOMAIN potentialHighlights :
                  \E it \in StoredAt(i) :
                      /\ it.aiEnhanced = FALSE
                      /\ it.playType = "detected"
                      /\ it.aiTitle = "Auto-detected Highlight"
                      /\ IsTenthOf(it.excitementLevel, potentialHighlights[i].confidence)

\* two candidates went through the fallback and were stored
C7_Witness ==
    /\ Has(bedrockResponse, "throws")
    /\ pc = "done"
    /\ Len(potentialHighlights) = 2
    /\ Cardinality(table) = 2

\* the contextual call returned a body that decodes and whose first content
\* entry carries a parseable text
ContextualSucceeded ==
    /\ Has(bedrockResponse, "body")
    /\ bedrockResponse.body.json
    /\ Has(bedrockResponse.body.value, "content")
    /\ bedrockResponse.body.value.content # <<>>
    /\ Has(bedrockResponse.body.value.content[1], "text")
    /\ bedrockResponse.body.value.content[1].text.json

\* C8: after the contextual stage, unless the call succeeded with a parseable
\* response, every candidate has the fallback values and aiEnhanced = false;
\* aiEnhanced = true appears only after a successful, parseable response.
C8_EveryFailureFallsBack ==
    AfterBedrock =>
        /\ ~ContextualSucceeded =>
              /\ Len(enhancedHighlights) = Len(potentialHighlights)
              /\ \A i \in DOMAIN potentialHighlights :
                    HasFallbackValues(enhancedHighlights[i], potentialHighlights[i])
        /\ \A i \in DOMAIN enhancedHighlights :
              (Has(enhancedHighlights[i], "aiEnhanced") /\ enhancedHighlights[i].aiEnhanced)
                  => ContextualSucceeded

\* the list of insights the collaborator returned, when it returned one
InsightList ==
    IF /\ ContextualSucceeded
       /\ Has(bedrockResponse.body.value.content[1].text.value, "highlights")
    THEN bedrockResponse.body.value.content[1].text.value.highlights
    ELSE <<>>

\* candidate h took every non-empty value of the insight
KeepsInsight(h, insight) ==
    /\ TruthyNumber(insight, "excitementLevel") => h.excitementLevel = insight.excitementLevel
    /\ TruthyString(insight, "playType") => h.playType = insight.playType
    /\ TruthyString(insight, "title") => h.aiTitle = insight.title
    /\ TruthyString(insight, "targetAudience") => h.targetAudience = insight.targetAudience

ShortResponse ==
    /\ AfterBedrock
    /\ ContextualSucceeded
    /\ Len(InsightList) < Len(potentialHighlights)

\* C9 as stated: with a response list shorter than the candidate list, every
\* trailing candidate has the values of the call-failure fallback
\* (confidence / 10, "detected", "Auto-detected Highlight", aiEnhanced = false)
\* and the leading candidates keep the collaborator's values.
C9_TrailingGetFailureFallback ==
    ShortResponse =>
        \A i \in DOMAIN potentialHighlights :
            IF i > Len(InsightList)
            THEN HasFallbackValues(enhancedHighlights[i], potentialHighlights[i])
            ELSE KeepsInsight(enhancedHighlights[i], InsightList[i])

\* C9 amended: with a response list shorter than the candidate list, every
\* trailing candidate has the per-field defaults of the success path
\* (excitementLevel = confidence / 10, playType "general", title
\* "Highlight <position>", targetAudience "general") and aiEnhanced = true,
\* and the leading candidates keep the values the collaborator supplied.
C9_TrailingGetSuccessDefaults ==
    ShortResponse =>
        /\ Len(enhancedHighlights) = Len(potentialHighlights)
        /\ \A i \in DOMAIN potentialHighlights :
              LET h == enhancedHighlights[i]
              IN /\ h.aiEnhanced = TRUE
                 /\ IF i > Len(InsightList)
                    THEN /\ IsTenthOf(h.excitementLevel, potentialHighlights[i].confidence)
                         /\ h.playType = "general"
                         /\ h.aiTitle = "Highlight " \o ToString(i)
                         /\ h.targetAudience = "general"
                    ELSE KeepsInsight(h, InsightList[i])

\* two candidates, one insight: the first keeps it, the second is trailing
C9_Witness ==
    /\ ShortResponse
    /\ Len(potentialHighlights) = 2
    /\ InsightList = <<GoalInsight>>
    /\ enhancedHighlights[1].playType = "goal"

AnyCallFailed(o) ==
    \/ Has(o.sentiment, "throws")
    \/ Has(o.entities, "throws")
    \/ Has(o.keyPhrases, "throws")

Unset(h, f) == ~Has(h, f) \/ h[f] = Null
UnsetList(h, f) == ~Has(h, f) \/ h[f] = <<>>

\* C10: a candidate for which a sentiment, entity or key-phrase call failed
\* leaves enhanceWithComprehend with sentiment, entities and key phrases unset
\* and with comprehendEnhanced = false.
C10_FailedCandidateMarked ==
    AfterComprehend =>
        \A i \in DOMAIN comprehendEnhancedHighlights :
            AnyCallFailed(comprehendOutcome[i]) =>
                LET h == comprehendEnhancedHighlights[i]
                IN /\ Unset(h, "titleSentiment")
                   /\ UnsetList(h, "titleEntities")
                   /\ UnsetList(h, "titleKeyPhrases")
                   /\ Has(h, "comprehendEnhanced") /\ h.comprehendEnhanced = FALSE

(***************************************************************************)
(* Claims about the isolation of candidates in enhanceWithComprehend       *)
(***************************************************************************)
\* the three calls for candidate i were made and answered, and the answer
\* carries a text for every entity and key phrase
AnalysisSucceeded(o) ==
    /\ o # NotCalled
    /\ ~AnyCallFailed(o)
    /\ \A k \in DOMAIN o.entities.Entities : Has(o.entities.Entities[k], "Text")
    /\ \A k \in DOMAIN o.keyPhrases.KeyPhrases : Has(o.keyPhrases.KeyPhrases[k], "Text")

\* C11: an error raised while enriching one candidate never changes the
\* result of a sibling: every candidate whose own analysis succeeded leaves
\* enhanceWithComprehend with sentiment, entities, key phrases, gamingContext
\* and comprehendEnhanced = true, whatever happened to the other candidates.
C11_SiblingsKeepAnalysis ==
    AfterComprehend =>
        \A i \in DOMAIN comprehendEnhancedHighlights :
            (TruthyString(enhancedHighlights[i], "aiTitle")
             /\ AnalysisSucceeded(comprehendOutcome[i])) =>
                LET h == comprehendEnhancedHighlights[i]
                IN /\ IsSet(h, "titleSentiment")
                   /\ Has(h, "titleEntities")
                   /\ Has(h, "titleKeyPhrases")
                   /\ Has(h, "gamingContext")
                   /\ Has(h, "comprehendEnhanced") /\ h.comprehendEnhanced = TRUE

(***************************************************************************)
(* clip-processor: utility functions                                       *)
(***************************************************************************)
FramesPerSecond == 30
HighlightsBucket == "highlights"

\* Math.floor of a number >= 0
Floor(r) == r.num \div r.den
\* r % m for r >= 0 and an integer m > 0
RatMod(r, m) == Rat(r.num % (m * r.den), r.den)

\* a timecode that drops the frames
secondsToTimecodeWholeSeconds(seconds) ==
    [hours |-> Floor(RatDiv(seconds, 3600)),
     minutes |-> Floor(RatDiv(RatMod(seconds, 3600), 60)),
     secs |-> Floor(RatMod(seconds, 60)),
     frames |-> 0]

\* the four numbers that are padded to two digits and joined with ':'
secondsToTimecode(seconds) ==
    [hours |-> Floor(RatDiv(seconds, 3600)),
     minutes |-> Floor(RatDiv(RatMod(seconds, 3600), 60)),
     secs |-> Floor(RatMod(seconds, 60)),
     frames |-> Floor(RatMul(RatMod(seconds, 1), FramesPerSecond, 1))]

\* Throws when the argument is undefined (s3Url.match) or does not match
parseS3Url(s3Url) ==
    LET
        \* the strings of the model on which /s3:\/\/([^\/]+)\/(.+)/ matches, with
        \* the two groups of the match
        S3UrlMatches ==
            ("s3://videos/games/game-1/final.mp4" :>
                 [bucket |-> "videos", key |-> "games/game-1/final.mp4"]) @@
            ("s3://archive/2023/cup.mp4" :> [bucket |-> "archive", key |-> "2023/cup.mp4"])
    IN
    IF s3Url \in DOMAIN S3UrlMatches THEN S3UrlMatches[s3Url] ELSE Throws

Marshall(item) ==
    LET
        NumberAttributes == {"startTime", "endTime", "duration", "confidence",
                             "excitementLevel", "mediaConvertJobId"}
        \* what a DynamoDB stream puts into NewImage for an item: the booleans as
        \* BOOL, the numbers as N, everything else of the model's items as S
        BoolAttributes == {"processed", "clipGenerated", "aiEnhanced", "comprehendEnhanced"}
    IN
    [a \in DOMAIN item |->
        IF a \in BoolAttributes THEN [BOOL |-> item[a]]
        ELSE IF a \in NumberAttributes THEN [N |-> item[a]]
        ELSE [S |-> item[a]]]

\* if (value.S) ... else if (value.N) ... else if (value.BOOL) ...: an
\* attribute whose S is '' or whose BOOL is false is not copied; N is a
\* non-empty string (also "0"), so a number is always copied
unmarshallDynamoDBItem(item) ==
    LET copied == {a \in DOMAIN item :
                      \/ Has(item[a], "S") /\ item[a].S # ""
                      \/ Has(item[a], "N")
                      \/ Has(item[a], "BOOL") /\ item[a].BOOL}
    IN [a \in copied |->
           IF Has(item[a], "S") THEN item[a].S
           ELSE IF Has(item[a], "N") THEN item[a].N
           ELSE item[a].BOOL]

(***************************************************************************)
(* clip-processor: the collaborators                                       *)
(***************************************************************************)
\* DynamoDB UpdateItem with a SET expression: the named attributes are
\* written, the others kept; an item that does not exist is created
UpdateItem(tbl, highlightId, sets) ==
    LET old == IF highlightId \in DOMAIN tbl THEN tbl[highlightId]
               ELSE [highlightId |-> highlightId]
    IN (highlightId :> (sets @@ old)) @@ tbl

\* MediaConvert CreateJob: the job gets the next Id and waits for transcoding
CreateJob(jobs, jobParams) ==
    Append(jobs, Assign(Assign(jobParams, "Id", Len(jobs) + 1), "Status", "SUBMITTED"))

\* the collaborators of one invocation: every call answers, or the calls of
\* the at-th processHighlight are answered up to the rejected one
NoRejection == [at |-> 0, call |-> "ok"]
Rejections(n) ==
    LET
        \* how one processHighlight call can go: every call answers, or the first
        \* rejected call is GetItem, CreateJob or UpdateItem
        ProcessOutcomes == {"ok", "getItemRejected", "createJobRejected", "updateRejected"}
    IN
    {NoRejection} \cup {[at |-> i, call |-> c] : i \in 1..n,
                                                c \in ProcessOutcomes \ {"ok"}}
OutcomeAt(o, i) == IF o.at = i THEN o.call ELSE "ok"

(***************************************************************************)
(* clip-processor: processHighlight                                        *)
(***************************************************************************)
ClipUrl(highlightId) ==
    "https://" \o HighlightsBucket \o ".s3.amazonaws.com/clips/" \o highlightId \o ".mp4"
ThumbnailUrl(highlightId) ==
    "https://" \o HighlightsBucket \o ".s3.amazonaws.com/thumbnails/" \o highlightId
        \o ".jpg"

\* the job parameters of createClipGenerationJob that depend on the highlight
createClipGenerationJob(highlight, sourceBucket, sourceKey) ==
    [FileInput |-> "s3://" \o sourceBucket \o "/" \o sourceKey,
     StartTimecode |-> secondsToTimecode(highlight.startTime),
     EndTimecode |-> secondsToTimecode(highlight.endTime),
     Destination |-> "s3://" \o HighlightsBucket \o "/clips/",
     UserMetadata |->
        [highlightId |-> highlight.highlightId,
         sport |-> IF TruthyString(highlight, "sport") THEN highlight.sport
                   ELSE "unknown",
         playType |-> IF TruthyString(highlight, "playType") THEN highlight.playType
                      ELSE "unknown"]]

\* the SET expression of updateHighlightJobInfo
updateHighlightJobInfo(tbl, highlightId, jobId, timestamp) ==
    UpdateItem(tbl, highlightId,
               [mediaConvertJobId |-> jobId, clipGenerationStarted |-> timestamp,
                clipStatus |-> "processing"])

\* submits a job without looking at clipGenerated
processHighlightUnguarded(tbl, jobs, highlightId, o, timestamp) ==
    LET aborted == [threw |-> TRUE, table |-> tbl, jobs |-> jobs]
    IN IF o = "getItemRejected" \/ highlightId \notin DOMAIN tbl THEN aborted
       ELSE
        LET highlight == tbl[highlightId]
            src == IF Has(highlight, "sourceVideo")
                   THEN parseS3Url(highlight.sourceVideo) ELSE Throws
        IN IF Has(src, "throws") \/ o = "createJobRejected" THEN aborted
           ELSE
            LET submitted == CreateJob(jobs,
                    createClipGenerationJob(highlight, src.bucket, src.key))
                jobId == Len(submitted)
            IN IF o = "updateRejected"
               THEN [threw |-> TRUE, table |-> tbl, jobs |-> submitted]
               ELSE [threw |-> FALSE,
                     table |-> updateHighlightJobInfo(tbl, highlightId, jobId,
                                                      timestamp),
                     jobs |-> submitted,
                     result |-> [highlightId |-> highlightId,
                                 status |-> "job_created", jobId |-> jobId]]

\* [threw, table, jobs, result]: what processHighlight leaves behind when the
\* collaborators behave as o says; threw = the call ended with throw error
processHighlight(tbl, jobs, highlightId, o, timestamp) ==
    LET aborted == [threw |-> TRUE, table |-> tbl, jobs |-> jobs]
    IN IF o = "getItemRejected" \/ highlightId \notin DOMAIN tbl THEN aborted
       ELSE
        LET highlight == tbl[highlightId]
            src == IF Has(highlight, "sourceVideo")
                   THEN parseS3Url(highlight.sourceVideo) ELSE Throws
        IN IF Has(highlight, "clipGenerated") /\ highlight.clipGenerated
           THEN [threw |-> FALSE, table |-> tbl, jobs |-> jobs,
                 result |-> IF Has(highlight, "clipUrl")
                            THEN [highlightId |-> highlightId,
                                  status |-> "already_processed",
                                  clipUrl |-> highlight.clipUrl]
                            ELSE [highlightId |-> highlightId,
                                  status |-> "already_processed"]]
           ELSE IF Has(src, "throws") \/ o = "createJobRejected" THEN aborted
           ELSE
            LET submitted == CreateJob(jobs,
                    createClipGenerationJob(highlight, src.bucket, src.key))
                jobId == Len(submitted)
            IN IF o = "updateRejected"
               THEN [threw |-> TRUE, table |-> tbl, jobs |-> submitted]
               ELSE [threw |-> FALSE,
                     table |-> updateHighlightJobInfo(tbl, highlightId, jobId,
                                                      timestamp),
                     jobs |-> submitted,
                     result |-> [highlightId |-> highlightId,
                                 status |-> "job_created", jobId |-> jobId]]

(***************************************************************************)
(* clip-processor: the four kinds of invocation                            *)
(***************************************************************************)
RECURSIVE DynamoStreamLoop(_, _, _, _, _, _, _)
\* the for-of loop of processDynamoDBEvent from record i on; a throw of
\* processHighlight leaves the loop and the function
DynamoStreamLoop(tbl, jobs, records, o, i, results, timestamp) ==
    IF i > Len(records)
    THEN [threw |-> FALSE, table |-> tbl, jobs |-> jobs, results |-> results]
    ELSE
     LET record == records[i]
         highlight == unmarshallDynamoDBItem(record.dynamodb.NewImage)
     IN IF ~(record.eventName = "INSERT" /\ Has(record.dynamodb, "NewImage"))
        THEN DynamoStreamLoop(tbl, jobs, records, o, i + 1, results, timestamp)
        ELSE IF ~(/\ ~(Has(highlight, "clipGenerated") /\ highlight.clipGenerated)
                  /\ ~(Has(highlight, "processed") /\ highlight.processed = FALSE))
        THEN DynamoStreamLoop(tbl, jobs, records, o, i + 1, results, timestamp)
        ELSE IF ~Has(highlight, "highlightId")
        THEN [threw |-> TRUE, table |-> tbl, jobs |-> jobs]
        ELSE LET r == processHighlight(tbl, jobs, highlight.highlightId, OutcomeAt(o, i),
                                       timestamp)
             IN IF r.threw THEN r
                ELSE DynamoStreamLoop(r.table, r.jobs, records, o, i + 1,
                                      Append(results, r.result), timestamp)

ClipErrorResponse ==
    [statusCode |-> 500, body |-> [message |-> "Error processing clips"]]

\* [table, jobs, response] of a handler run that enters processDynamoDBEvent
processDynamoDBEvent(tbl, jobs, event, o, timestamp) ==
    LET r == DynamoStreamLoop(tbl, jobs, event.Records, o, 1, <<>>, timestamp)
    IN [table |-> r.table, jobs |-> r.jobs,
        response |-> IF r.threw THEN ClipErrorResponse
                     ELSE [statusCode |-> 200,
                           body |-> [message |-> "DynamoDB events processed",
                                     processedHighlights |-> Len(r.results),
                                     results |-> r.results]]]

\* the highlight a job names, Undefined when the job carries none
MetadataHighlightId(job) ==
    IF Has(job, "UserMetadata") /\ Has(job.UserMetadata, "highlightId")
    THEN [id |-> job.UserMetadata.highlightId] ELSE Undefined

\* updateHighlightWithClipInfo that writes the record of every highlight
updateEveryHighlightWithClipInfo(tbl, jobs, jobId, o, timestamp) ==
    [threw |-> FALSE,
     table |-> [h \in DOMAIN tbl |->
                   [clipGenerated |-> TRUE, clipUrl |-> ClipUrl(h),
                    thumbnailUrl |-> ThumbnailUrl(h), clipStatus |-> "completed",
                    clipGeneratedAt |-> timestamp] @@ tbl[h]]]

\* [threw, table]
updateHighlightWithClipInfo(tbl, jobs, jobId, o, timestamp) ==
    IF o = "getJobRejected" \/ jobId \notin DOMAIN jobs
    THEN [threw |-> TRUE, table |-> tbl]
    ELSE LET named == MetadataHighlightId(jobs[jobId])
         IN IF named = Undefined THEN [threw |-> FALSE, table |-> tbl]
            ELSE IF o = "updateRejected" THEN [threw |-> TRUE, table |-> tbl]
            ELSE [threw |-> FALSE,
                  table |-> UpdateItem(tbl, named.id,
                               [clipGenerated |-> TRUE,
                                clipUrl |-> ClipUrl(named.id),
                                thumbnailUrl |-> ThumbnailUrl(named.id),
                                clipStatus |-> "completed",
                                clipGeneratedAt |-> timestamp])]

\* markHighlightAsFailed that also takes the clip away
markHighlightAsFailedAndReset(tbl, jobs, jobId, o, timestamp) ==
    IF o = "getJobRejected" \/ jobId \notin DOMAIN jobs THEN tbl
    ELSE LET named == MetadataHighlightId(jobs[jobId])
         IN IF named = Undefined \/ o = "updateRejected" THEN tbl
            ELSE UpdateItem(tbl, named.id,
                            [clipStatus |-> "failed",
                             clipError |-> "MediaConvert job failed",
                             clipGenerated |-> FALSE,
                             clipGeneratedAt |-> timestamp])

\* the table after markHighlightAsFailed; its catch block only logs
markHighlightAsFailed(tbl, jobs, jobId, o, timestamp) ==
    IF o = "getJobRejected" \/ jobId \notin DOMAIN jobs THEN tbl
    ELSE LET named == MetadataHighlightId(jobs[jobId])
         IN IF named = Undefined \/ o = "updateRejected" THEN tbl
            ELSE UpdateItem(tbl, named.id,
                            [clipStatus |-> "failed",
                             clipError |-> "MediaConvert job failed",
                             clipGeneratedAt |-> timestamp])

\* [table, jobs, response] of a handler run that enters processMediaConvertEvent
processMediaConvertEvent(tbl, jobs, event, o, timestamp) ==
    LET detail == IF Has(event, "detail") THEN event.detail ELSE EmptyObject
        failed == [table |-> tbl, jobs |-> jobs, response |-> ClipErrorResponse]
    IN IF ~Has(detail, "jobId") THEN failed
       ELSE
        LET jobId == detail.jobId
            status == IF Has(detail, "status") THEN detail.status ELSE "undefined"
            answered(t) ==
                [table |-> t, jobs |-> jobs,
                 response |-> [statusCode |-> 200,
                               body |-> [message |-> "MediaConvert event processed",
                                         jobId |-> jobId, status |-> status]]]
        IN IF status = "COMPLETE"
           THEN LET r == updateHighlightWithClipInfo(tbl, jobs, jobId, o, timestamp)
                IN IF r.threw THEN failed ELSE answered(r.table)
           ELSE IF status = "ERROR"
           THEN answered(markHighlightAsFailed(tbl, jobs, jobId, o, timestamp))
           ELSE answered(tbl)

RECURSIVE UnprocessedLoop(_, _, _, _, _, _, _)
\* the for-of loop of processUnprocessedHighlights from item i on
UnprocessedLoop(tbl, jobs, ids, o, i, results, timestamp) ==
    IF i > Len(ids) THEN [table |-> tbl, jobs |-> jobs, results |-> results]
    ELSE LET r == processHighlight(tbl, jobs, ids[i], OutcomeAt(o, i), timestamp)
         IN UnprocessedLoop(r.table, r.jobs, ids, o, i + 1,
                Append(results,
                       IF r.threw THEN [highlightId |-> ids[i], status |-> "error"]
                       ELSE r.result),
                timestamp)

\* [table, jobs, response]; ids = result.Items in the order of the scan
processUnprocessedHighlights(tbl, jobs, ids, o, timestamp) ==
    LET r == UnprocessedLoop(tbl, jobs, ids, o, 1, <<>>, timestamp)
    IN [table |-> r.table, jobs |-> r.jobs,
        response |-> [statusCode |-> 200,
                      body |-> [message |-> "Batch processing completed",
                                processedHighlights |-> Len(r.results),
                                results |-> r.results]]]

(***************************************************************************)
(* clip-processor: the stored highlights and the events                    *)
(***************************************************************************)
MaxJobs == 2

\* new Date().toISOString()
Now == "2024-05-01T12:00:00.000Z"

\* an item as storeHighlightMetadata writes it (lines 797-820)
FreshHighlight ==
    [highlightId |-> "game-1-100-0", gameId |-> "game-1",
     sourceVideo |-> "s3://videos/games/game-1/final.mp4",
     startTime |-> RatInt(1), endTime |-> Rat(5, 2), duration |-> Rat(3, 2),
     confidence |-> RatInt(92), excitementLevel |-> RatInt(9), playType |-> "goal",
     aiTitle |-> "Goal", aiEnhanced |-> TRUE, comprehendEnhanced |-> TRUE,
     processed |-> TRUE, clipGenerated |-> FALSE, clipStatus |-> "pending"]

\* an item as the earlier storeHighlightMetadata wrote it (lines 296-310):
\* processed: false, no clip attributes
LegacyHighlight ==
    [highlightId |-> "cup-7-1", gameId |-> "cup",
     sourceVideo |-> "s3://archive/2023/cup.mp4",
     startTime |-> Rat(18627, 5), endTime |-> Rat(37301, 10),
     duration |-> Rat(47, 10), confidence |-> RatInt(90), processed |-> FALSE]

\* an item whose clip has been generated
ClippedHighlight ==
    [highlightId |-> "game-1-100-1", gameId |-> "game-1",
     sourceVideo |-> "s3://videos/games/game-1/final.mp4",
     startTime |-> RatInt(7), endTime |-> RatInt(9), duration |-> RatInt(2),
     confidence |-> RatInt(88), excitementLevel |-> RatInt(7), playType |-> "save",
     aiTitle |-> "Save", aiEnhanced |-> TRUE, comprehendEnhanced |-> FALSE,
     processed |-> TRUE, clipGenerated |-> TRUE, clipStatus |-> "completed",
     mediaConvertJobId |-> 0, clipUrl |-> ClipUrl("game-1-100-1"),
     thumbnailUrl |-> ThumbnailUrl("game-1-100-1")]

InitClip ==
    LET
        \* the tables the clip processor is started on: one highlight without a
        \* clip (clipGenerated false, or absent) next to one with a clip
        InitialTables ==
            LET
                TableOf(items) ==
                    [h \in {it.highlightId : it \in items} |->
                        CHOOSE it \in items : it.highlightId = h]
            IN
                         {TableOf({FreshHighlight, ClippedHighlight}),
                          TableOf({LegacyHighlight, ClippedHighlight})}
    IN
    /\ labelResults = Undefined
    /\ personResults = Undefined
    /\ labelTimestamps = <<>>
    /\ timestamps = <<>>
    /\ ti = 0
    /\ currentCluster = <<>>
    /\ lastTimestamp = 0
    /\ potentialHighlights = <<>>
    /\ apc = "idle"
    /\ PipeIdle
    /\ highlightsTable \in InitialTables
    /\ mcJobs = <<>>
    /\ clipEvent = Undefined
    /\ clipOutcome = NoRejection
    /\ clipResponse = Undefined
    /\ RankIdle

\* lines 23-57, the handler on a batch of the table's stream (lines 33-35)
StreamInvocation ==
    LET
        \* the batches the stream delivers
        StreamBatches ==
            LET
                KeysOnlyRecord(item) ==
                    [eventName |-> "INSERT",
                     dynamodb |-> [Keys |-> [highlightId |-> [S |-> item.highlightId]]]]
                ModifyRecord(item) == [eventName |-> "MODIFY", dynamodb |-> [NewImage |-> Marshall(item)]]
                \* the records of the table's stream
                InsertRecord(item) == [eventName |-> "INSERT", dynamodb |-> [NewImage |-> Marshall(item)]]
            IN
            {<<InsertRecord(FreshHighlight)>>,
             <<InsertRecord(LegacyHighlight)>>,
             <<InsertRecord(ClippedHighlight), InsertRecord(FreshHighlight)>>,
             <<ModifyRecord(FreshHighlight), KeysOnlyRecord(FreshHighlight)>>}
    IN
    \E records \in StreamBatches :
      \E o \in Rejections(Len(records)) :
        LET event == [Records |-> records]
            r == processDynamoDBEvent(highlightsTable, mcJobs, event, o, Now)
        IN /\ clipResponse = Undefined
           /\ Len(r.jobs) <= MaxJobs
           /\ highlightsTable' = r.table
           /\ mcJobs' = r.jobs
           /\ clipEvent' = event
           /\ clipOutcome' = o
           /\ clipResponse' = r.response
           /\ UNCHANGED <<clusterVars, pipeVars, rankVars>>

\* the handler on a job state change event (lines 36-38)
MediaConvertInvocation ==
    LET
        \* the EventBridge event of job j in its present state
        JobStateChange(j) ==
            [source |-> "aws.mediaconvert",
             detail |-> [jobId |-> j,
                         status |-> IF mcJobs[j].Status = "SUBMITTED" THEN "PROGRESSING"
                                    ELSE mcJobs[j].Status]]
        \* how one job event can go: GetJob, then UpdateItem
        EventOutcomes == {"ok", "getJobRejected", "updateRejected"}
    IN
    \E event \in {JobStateChange(j) : j \in DOMAIN mcJobs}
                 \cup {[source |-> "aws.mediaconvert", detail |-> EmptyObject]},
       c \in EventOutcomes :
        LET o == [at |-> 1, call |-> c]
            r == processMediaConvertEvent(highlightsTable, mcJobs, event, c, Now)
        IN /\ clipResponse = Undefined
           /\ Len(r.jobs) <= MaxJobs
           /\ highlightsTable' = r.table
           /\ mcJobs' = r.jobs
           /\ clipEvent' = event
           /\ clipOutcome' = o
           /\ clipResponse' = r.response
           /\ UNCHANGED <<clusterVars, pipeVars, rankVars>>

\* the handler invoked for one highlight (lines 39-41); it returns what
\* processHighlight returns
DirectInvocation ==
    \E h \in DOMAIN highlightsTable \cup {"game-9-0-0"}, o \in Rejections(1) :
        LET event == [highlightId |-> h]
            p == processHighlight(highlightsTable, mcJobs, h, o.call, Now)
            r == [table |-> p.table, jobs |-> p.jobs,
                  response |-> IF p.threw THEN ClipErrorResponse ELSE p.result]
        IN /\ clipResponse = Undefined
           /\ Len(r.jobs) <= MaxJobs
           /\ highlightsTable' = r.table
           /\ mcJobs' = r.jobs
           /\ clipEvent' = event
           /\ clipOutcome' = o
           /\ clipResponse' = r.response
           /\ UNCHANGED <<clusterVars, pipeVars, rankVars>>

\* the handler invoked manually (lines 42-45), the scan answers
RescanInvocation ==
    LET
        \* the orders in which a scan can return a set of items
        Orderings(S) == {s \in [1..Cardinality(S) -> S] : Range(s) = S}
        \* the keys of the items that pass
        \* attribute_not_exists(clipGenerated) OR clipGenerated = :false
        ScanUnprocessed(tbl) ==
            {h \in DOMAIN tbl : ~Has(tbl[h], "clipGenerated") \/ tbl[h].clipGenerated = FALSE}
    IN
    \E ids \in Orderings(ScanUnprocessed(highlightsTable)) :
      \E o \in Rejections(Len(ids)) :
        LET event == EmptyObject
            r == processUnprocessedHighlights(highlightsTable, mcJobs, ids, o, Now)
        IN /\ clipResponse = Undefined
           /\ Len(r.jobs) <= MaxJobs
           /\ highlightsTable' = r.table
           /\ mcJobs' = r.jobs
           /\ clipEvent' = event
           /\ clipOutcome' = o
           /\ clipResponse' = r.response
           /\ UNCHANGED <<clusterVars, pipeVars, rankVars>>

\* the handler invoked manually, the scan of line 452 is rejected
RescanRejected ==
    /\ clipResponse = Undefined
    /\ highlightsTable' = highlightsTable
    /\ mcJobs' = mcJobs
    /\ clipEvent' = EmptyObject
    /\ clipOutcome' = [at |-> 0, call |-> "scanRejected"]
    /\ clipResponse' = ClipErrorResponse
    /\ UNCHANGED <<clusterVars, pipeVars, rankVars>>

\* the invocation is over: its event, the answers it got and the value it
\* returned are gone with it
InvocationEnds ==
    /\ clipResponse # Undefined
    /\ clipEvent' = Undefined
    /\ clipOutcome' = <<>>
    /\ clipResponse' = Undefined
    /\ UNCHANGED <<clusterVars, pipeVars, rankVars, highlightsTable, mcJobs>>

\* MediaConvert finishes a job, between two invocations
JobFinishes ==
    /\ clipResponse = Undefined
    /\ \E j \in DOMAIN mcJobs, s \in {"COMPLETE", "ERROR"} :
          /\ mcJobs[j].Status = "SUBMITTED"
          /\ mcJobs' = [mcJobs EXCEPT ![j].Status = s]
    /\ UNCHANGED <<clusterVars, pipeVars, rankVars, highlightsTable, clipEvent,
                   clipOutcome,
                   clipResponse>>

NextClip ==
    \/ StreamInvocation
    \/ MediaConvertInvocation
    \/ DirectInvocation
    \/ RescanInvocation
    \/ RescanRejected
    \/ InvocationEnds
    \/ JobFinishes

SpecClip == InitClip /\ [][NextClip]_vars

(***************************************************************************)
(* Claims about the clip processor                                         *)
(***************************************************************************)
ClipGenerated(tbl, h) ==
    h \in DOMAIN tbl /\ Has(tbl[h], "clipGenerated") /\ tbl[h].clipGenerated = TRUE

\* the jobs an invocation has submitted
NewJobs == {j \in DOMAIN mcJobs' : j > Len(mcJobs)}

\* a step of the handler: it returns a value and leaves the jobs that exist
\* as they are (a step of MediaConvert changes the status of one)
HandlerRan ==
    /\ clipResponse' # Undefined
    /\ \A j \in DOMAIN mcJobs : mcJobs'[j] = mcJobs[j]

IsDirect(event) == Has(event, "highlightId")
IsRescan(event) == event = EmptyObject
IsJobEvent(event) == Has(event, "source")
IsStreamBatch(event) == Has(event, "Records")

\* C12: whatever sequence of stream, direct and manual invocations is run, no
\* job is submitted for a highlight whose stored record has clipGenerated =
\* true: a direct invocation for such a highlight answers 'already_processed'
\* and submits nothing, and the manual re-scan processes only highlights whose
\* clipGenerated is absent or false.
C12_NoJobForClippedHighlight ==
    [][/\ \A j \in NewJobs :
             ~ClipGenerated(highlightsTable, mcJobs'[j].UserMetadata.highlightId)
       /\ (/\ HandlerRan
           /\ IsDirect(clipEvent')
           /\ ClipGenerated(highlightsTable, clipEvent'.highlightId)
           /\ clipOutcome'.call = "ok")
          => (/\ clipResponse'.status = "already_processed"
              /\ mcJobs' = mcJobs)
       /\ (HandlerRan /\ IsRescan(clipEvent') /\ clipResponse'.statusCode = 200)
          => \A i \in DOMAIN clipResponse'.body.results :
                LET h == clipResponse'.body.results[i].highlightId
                IN \/ ~Has(highlightsTable[h], "clipGenerated")
                   \/ highlightsTable[h].clipGenerated = FALSE
      ]_vars

\* the highlight got its clip through a job, and a later direct invocation
\* for it was answered 'already_processed'
C12_Witness ==
    /\ IsDirect(clipEvent)
    /\ clipEvent.highlightId = FreshHighlight.highlightId
    /\ Has(clipResponse, "status") /\ clipResponse.status = "already_processed"
    /\ Len(mcJobs) = 1
    /\ mcJobs[1].UserMetadata.highlightId = FreshHighlight.highlightId

\* the instant a timecode HH:MM:SS:FF names, in seconds
TimecodeSeconds(tc) ==
    Rat((tc.hours * 3600 + tc.minutes * 60 + tc.secs) * FramesPerSecond + tc.frames,
        FramesPerSecond)

\* tc names the frame that holds the instant seconds
FrameOf(tc, seconds) ==
    /\ tc.minutes < 60 /\ tc.secs < 60 /\ tc.frames < FramesPerSecond
    /\ RatLe(TimecodeSeconds(tc), seconds)
    /\ RatLt(RatSub(seconds, TimecodeSeconds(tc)), Rat(1, FramesPerSecond))

\* job j clips the source video of the stored highlight to [startTime, endTime]
ClipsHighlight(job, highlight) ==
    /\ job.FileInput = highlight.sourceVideo
    /\ FrameOf(job.StartTimecode, highlight.startTime)
    /\ FrameOf(job.EndTimecode, highlight.endTime)
    /\ job.UserMetadata.highlightId = highlight.highlightId

\* C13: processHighlight, for a stored highlight without a generated clip,
\* submits one job clipped to [startTime, endTime] of the highlight's source
\* video and records that job's id on the record with clipStatus =
\* 'processing'; a record is 'processing' only with the id of a job that was
\* submitted for it.
C13_JobThenProcessing ==
    /\ [](\A h \in DOMAIN highlightsTable :
            (Has(highlightsTable[h], "clipStatus")
             /\ highlightsTable[h].clipStatus = "processing")
            => /\ Has(highlightsTable[h], "mediaConvertJobId")
               /\ highlightsTable[h].mediaConvertJobId \in DOMAIN mcJobs
               /\ mcJobs[highlightsTable[h].mediaConvertJobId]
                      .UserMetadata.highlightId = h)
    /\ [][(/\ HandlerRan
           /\ IsDirect(clipEvent')
           /\ clipEvent'.highlightId \in DOMAIN highlightsTable
           /\ ~ClipGenerated(highlightsTable, clipEvent'.highlightId)
           /\ clipOutcome'.call = "ok")
          => LET h == clipEvent'.highlightId
                 j == Len(mcJobs) + 1
             IN /\ NewJobs = {j}
                /\ ClipsHighlight(mcJobs'[j], highlightsTable[h])
                /\ mcJobs'[j].Status = "SUBMITTED"
                /\ highlightsTable'[h].mediaConvertJobId = j
                /\ highlightsTable'[h].clipStatus = "processing"
                /\ clipResponse'.status = "job_created"
                /\ clipResponse'.jobId = j
         ]_vars

\* a job for the highlight stored with endTime 2.5 s was submitted and recorded
C13_Witness ==
    /\ FreshHighlight.highlightId \in DOMAIN highlightsTable
    /\ highlightsTable[FreshHighlight.highlightId].clipStatus = "processing"
    /\ highlightsTable[FreshHighlight.highlightId].mediaConvertJobId = 1
    /\ mcJobs[1].EndTimecode = [hours |-> 0, minutes |-> 0, secs |-> 2, frames |-> 15]
    /\ IsDirect(clipEvent)
    /\ Has(clipResponse, "status") /\ clipResponse.status = "job_created"

\* the latest invocation got the state change event of a job, with status s
IsJobEventWith(event, s) ==
    /\ IsJobEvent(event)
    /\ Has(event.detail, "jobId") /\ event.detail.jobId \in DOMAIN mcJobs
    /\ event.detail.status = s

\* every record but the one of highlight h is what it was
OthersUntouched(h) ==
    /\ DOMAIN highlightsTable' \ {h} = DOMAIN highlightsTable \ {h}
    /\ \A g \in DOMAIN highlightsTable \ {h} : highlightsTable'[g] = highlightsTable[g]

\* C14: on a job event with status COMPLETE for job J, the highlight named in
\* J's metadata gets clipUrl and thumbnailUrl set, clipGenerated = true and
\* clipStatus = 'completed'; no other highlight record is changed by the event.
C14_CompleteMarksNamedHighlight ==
    [][(HandlerRan /\ IsJobEventWith(clipEvent', "COMPLETE"))
       => LET h == mcJobs[clipEvent'.detail.jobId].UserMetadata.highlightId
          IN /\ OthersUntouched(h)
             /\ clipOutcome'.call = "ok"
                => /\ highlightsTable'[h].clipUrl = ClipUrl(h)
                   /\ highlightsTable'[h].thumbnailUrl = ThumbnailUrl(h)
                   /\ highlightsTable'[h].clipGenerated = TRUE
                   /\ highlightsTable'[h].clipStatus = "completed"
                   /\ clipResponse'.statusCode = 200
      ]_vars

\* the COMPLETE event of the job of the highlight stored by the pipeline has
\* been handled
C14_Witness ==
    /\ IsJobEventWith(clipEvent, "COMPLETE")
    /\ clipOutcome.call = "ok"
    /\ mcJobs[clipEvent.detail.jobId].UserMetadata.highlightId
           = FreshHighlight.highlightId
    /\ highlightsTable[FreshHighlight.highlightId].clipGenerated = TRUE
    /\ highlightsTable[FreshHighlight.highlightId].clipStatus = "completed"

\* the attributes markHighlightAsFailed is meant to write
FailureAttributes == {"clipStatus", "clipError", "clipGeneratedAt"}

\* C15: on a job event with status ERROR the highlight's clipStatus becomes
\* 'failed' with the generic error message; its clipGenerated flag, its clip
\* URLs and all enrichment attributes stay as they were, the record stays in
\* the store, and the handler submits no new job.
C15_ErrorMarksFailedOnly ==
    [][(HandlerRan /\ IsJobEventWith(clipEvent', "ERROR"))
       => LET h == mcJobs[clipEvent'.detail.jobId].UserMetadata.highlightId
          IN /\ NewJobs = {}
             /\ OthersUntouched(h)
             /\ h \in DOMAIN highlightsTable /\ h \in DOMAIN highlightsTable'
             /\ DOMAIN highlightsTable'[h] \ FailureAttributes
                    = DOMAIN highlightsTable[h] \ FailureAttributes
             /\ \A a \in DOMAIN highlightsTable[h] \ FailureAttributes :
                    highlightsTable'[h][a] = highlightsTable[h][a]
             /\ clipOutcome'.call = "ok"
                => /\ highlightsTable'[h].clipStatus = "failed"
                   /\ highlightsTable'[h].clipError = "MediaConvert job failed"
      ]_vars

\* the ERROR event of a job of the record that has no clipGenerated
\* attribute has been handled
C15_Witness ==
    /\ IsJobEventWith(clipEvent, "ERROR")
    /\ clipOutcome.call = "ok"
    /\ mcJobs[clipEvent.detail.jobId].UserMetadata.highlightId
           = LegacyHighlight.highlightId
    /\ highlightsTable[LegacyHighlight.highlightId].clipStatus = "failed"
    /\ ~Has(highlightsTable[LegacyHighlight.highlightId], "clipGenerated")

(***************************************************************************)
(* personalization: ruleBasedPersonalization                               *)
(***************************************************************************)
TeamPoints == 10
PlayerPoints == 15
PlayTypePoints == 5
SportPoints == 3

RECURSIVE BuildPreferenceMap(_, _)
\* preferences.forEach: preferenceMap[pref.type][pref.value] = pref.weight || 1,
\* held as a function of <<type, value>>
BuildPreferenceMap(prefs, map) ==
    LET
        \* pref.weight || 1
        WeightOrOne(pref) == IF Has(pref, "weight") /\ pref.weight # 0 THEN pref.weight ELSE 1
    IN
    IF prefs = <<>> THEN map
    ELSE BuildPreferenceMap(Tail(prefs),
             (<<Head(prefs).type, Head(prefs).value>> :> WeightOrOne(Head(prefs)))
                 @@ map)

\* preferenceMap[type][value], 0 standing for undefined
PreferenceOf(map, type, value) ==
    IF <<type, value>> \in DOMAIN map THEN map[<<type, value>>] ELSE 0

RECURSIVE SumMatches(_, _, _)
\* what the forEach over teams (players) adds up before the factor is applied
SumMatches(names, map, type) ==
    IF names = <<>> THEN 0
    ELSE PreferenceOf(map, type, Head(names)) + SumMatches(Tail(names), map, type)

\* let score = highlight.confidence || 0, then the four additions
Score(highlight, map) ==
    (IF Has(highlight, "confidence") THEN highlight.confidence ELSE 0)
    + (IF Has(highlight, "teams")
       THEN TeamPoints * SumMatches(highlight.teams, map, "TEAM") ELSE 0)
    + (IF Has(highlight, "players")
       THEN PlayerPoints * SumMatches(highlight.players, map, "PLAYER") ELSE 0)
    + (IF TruthyString(highlight, "playType")
       THEN PlayTypePoints * PreferenceOf(map, "PLAY_TYPE", highlight.playType)
       ELSE 0)
    + (IF TruthyString(highlight, "sport")
       THEN SportPoints * PreferenceOf(map, "SPORT", highlight.sport) ELSE 0)

RECURSIVE InsertBeforeTies(_, _)
\* insert h in front of the elements it ties with
InsertBeforeTies(sorted, h) ==
    IF sorted = <<>> THEN <<h>>
    ELSE IF Head(sorted).personalizedScore <= h.personalizedScore
         THEN <<h>> \o sorted
         ELSE <<Head(sorted)>> \o InsertBeforeTies(Tail(sorted), h)

RECURSIVE InsertByScore(_, _)
\* insert h behind every element that does not compare after it
InsertByScore(sorted, h) ==
    IF sorted = <<>> THEN <<h>>
    ELSE IF Head(sorted).personalizedScore < h.personalizedScore
         THEN <<h>> \o sorted
         ELSE <<Head(sorted)>> \o InsertByScore(Tail(sorted), h)

RECURSIVE SortByScoreFrom(_, _)
SortByScoreFrom(sorted, rest) ==
    IF rest = <<>> THEN sorted
    ELSE SortByScoreFrom(InsertByScore(sorted, Head(rest)), Tail(rest))

\* highlights.map(highlight => ({ ...highlight, personalizedScore: score }))
ScoredHighlights(highlights, preferenceMap) ==
    [i \in 1..Len(highlights) |->
        Assign(highlights[i], "personalizedScore", Score(highlights[i], preferenceMap))]

ruleBasedPersonalization(highlights, prefs) ==
    LET
        \* scoredHighlights.sort((a, b) => b.personalizedScore - a.personalizedScore),
        \* stable
        SortByScore(hs) == SortByScoreFrom(<<>>, hs)
    IN
    SortByScore(ScoredHighlights(highlights, BuildPreferenceMap(prefs, <<>>)))

\* the array highlights after map() has written the score into its elements
HighlightsScoredInPlace(highlights, prefs) ==
    ScoredHighlights(highlights, BuildPreferenceMap(prefs, <<>>))

\* the array highlights after ruleBasedPersonalization: map() and the spread
\* build new objects, sort() works on the new array
HighlightsAfterRanking(highlights, prefs) == highlights

(***************************************************************************)
(* personalization: the recommender and the handler                        *)
(***************************************************************************)
RECURSIVE HighlightWithId(_, _)
\* highlightMap[itemId]: the last highlight of the pool with that id
HighlightWithId(highlights, itemId) ==
    IF highlights = <<>> THEN Undefined
    ELSE IF Last(highlights).highlightId = itemId THEN Last(highlights)
    ELSE HighlightWithId(SubSeq(highlights, 1, Len(highlights) - 1), itemId)

\* recommendedItemIds.map(itemId => highlightMap[itemId]) without the filter
RecommendedWithGaps(highlights, itemList) ==
    [i \in 1..Len(itemList) |-> HighlightWithId(highlights, itemList[i].itemId)]

\* recommendedItemIds.map(itemId => highlightMap[itemId])
\*                   .filter(highlight => highlight !== undefined)
RecommendedHighlights(highlights, itemList) ==
    SelectSeq([i \in 1..Len(itemList) |->
                  HighlightWithId(highlights, itemList[i].itemId)],
              LAMBDA h : h # Undefined)

\* the fallback of a failed recommender call that ranks with no preferences
FallbackWithoutPreferences(highlights, prefs) ==
    ruleBasedPersonalization(highlights, <<>>)

\* line 144: the ranking of the catch block
FallbackRanking(highlights, prefs) == ruleBasedPersonalization(highlights, prefs)

\* [threw, value]: getPersonalizeRecommendations when the recommender
\* answers o.recommender and the second preference query goes as o.fallbackQuery
getPersonalizeRecommendations(highlights, prefs, o) ==
    IF Has(o.recommender, "itemList")
    THEN [threw |-> FALSE,
          value |-> RecommendedHighlights(highlights, o.recommender.itemList)]
    ELSE IF o.fallbackQuery = "rejected" THEN [threw |-> TRUE]
    ELSE [threw |-> FALSE, value |-> FallbackRanking(highlights, prefs)]

\* the items a scan with processed = true AND status = 'COMPLETED' returns
getAvailableHighlights(tbl) ==
    SelectSeq(tbl, LAMBDA it : /\ Has(it, "processed") /\ it.processed = TRUE
                               /\ Has(it, "status") /\ it.status = "COMPLETED")

(***************************************************************************)
(* personalization: the stored items, the requests and the collaborators   *)
(***************************************************************************)
MaxPrefs == 2

SoccerGoal ==
    [highlightId |-> "h-soccer-goal", confidence |-> 90, sport |-> "soccer",
     playType |-> "goal", teams |-> <<"lions">>, players |-> <<"ana">>,
     processed |-> TRUE, status |-> "COMPLETED"]
BasketballDunk ==
    [highlightId |-> "h-basketball-dunk", confidence |-> 90, sport |-> "basketball",
     playType |-> "dunk", processed |-> TRUE, status |-> "COMPLETED"]
DerbySave ==
    [highlightId |-> "h-derby-save", confidence |-> 85, sport |-> "soccer",
     playType |-> "save", teams |-> <<"tigers", "lions">>,
     players |-> <<"bo", "ana">>, processed |-> TRUE, status |-> "COMPLETED"]
\* an item of the pipeline that has no status attribute
Unfinished ==
    [highlightId |-> "h-unfinished", confidence |-> 99, sport |-> "soccer",
     playType |-> "goal", processed |-> TRUE]

UserId == "user-1"
Preference(type, value, weight) ==
    [userId |-> UserId, type |-> type, value |-> value, weight |-> weight]

\* the items the preferences table can hold for the user, in the order a
\* query returns them
PreferenceItems ==
    <<Preference("SPORT", "soccer", 10),
      Preference("PLAY_TYPE", "goal", 10),
      Preference("TEAM", "lions", 0),
      Preference("TEAM", "tigers", 2),
      Preference("PLAYER", "ana", 1)>>

\* result.Items || [] of the query for the user
getUserPreferences(items) ==
    SelectSeq(PreferenceItems, LAMBDA pref : pref \in items)

Answers ==
    LET
        NoCall == [called |-> FALSE]
    IN
           [prefsQuery |-> "ok", scan |-> "ok", recommender |-> NoCall,
            fallbackQuery |-> "none"]

\* how the collaborator calls of one request can go: the calls that are made
\* answer, or one of them is rejected
RankOutcomes(event, arn, tbl) ==
    LET
        \* what the recommender can answer
        Recommendations ==
            {[itemList |-> <<[itemId |-> "h-basketball-dunk"], [itemId |-> "h-gone"],
                             [itemId |-> "h-soccer-goal"]>>],
             [itemList |-> <<[itemId |-> "h-derby-save"]>>],
             [itemList |-> <<>>]}
    IN
    IF ~Has(event, "userId")
    THEN {[Answers EXCEPT !.prefsQuery = "none", !.scan = "none"]}
    ELSE {[Answers EXCEPT !.prefsQuery = "rejected", !.scan = "none"],
          [Answers EXCEPT !.scan = "rejected"]}
         \cup
         (IF getAvailableHighlights(tbl) = <<>> \/ arn = Undefined
          THEN {Answers}
          ELSE {[Answers EXCEPT !.recommender = r] : r \in Recommendations}
               \cup {[Answers EXCEPT !.recommender = Throws, !.fallbackQuery = q] :
                        q \in {"ok", "rejected"}})

\* [highlights, response]: the handler's local highlights and the value it
\* returns (lines 13-76)
RankHandler(event, arn, tbl, items, o) ==
    LET
        RankErrorResponse ==
            [statusCode |-> 500, body |-> [message |-> "Error personalizing highlights"]]
    IN
    IF ~Has(event, "userId")
    THEN [highlights |-> <<>>,
          response |-> [statusCode |-> 400,
                        body |-> [message |-> "Missing userId parameter"]]]
    ELSE IF o.prefsQuery = "rejected" \/ o.scan = "rejected"
    THEN [highlights |-> <<>>, response |-> RankErrorResponse]
    ELSE
     LET userPreferences == getUserPreferences(items)
         highlights == getAvailableHighlights(tbl)
         ranked == IF arn # Undefined
                   THEN getPersonalizeRecommendations(highlights, userPreferences, o)
                   ELSE [threw |-> FALSE,
                         value |-> ruleBasedPersonalization(highlights,
                                                            userPreferences)]
         after == IF arn # Undefined /\ Has(o.recommender, "itemList")
                  THEN highlights
                  ELSE HighlightsAfterRanking(highlights, userPreferences)
     IN IF highlights = <<>>
        THEN [highlights |-> highlights,
              response |-> [statusCode |-> 200,
                            body |-> [message |->
                                        "No highlights available for personalization",
                                      highlights |-> <<>>]]]
        ELSE IF ranked.threw
        THEN [highlights |-> highlights, response |-> RankErrorResponse]
        ELSE [highlights |-> after,
              response |-> [statusCode |-> 200,
                            body |-> [message |-> "Highlights personalized successfully",
                                      userId |-> event.userId,
                                      highlightsCount |-> Len(ranked.value),
                                      highlights |-> ranked.value]]]

InitRank ==
    LET
        \* the highlights table, in the order a scan returns the items
        RankTables ==
            {<<>>,
             <<SoccerGoal, BasketballDunk>>,
             <<BasketballDunk, Unfinished, SoccerGoal, DerbySave>>,
             <<DerbySave, BasketballDunk, SoccerGoal>>}
    IN
    /\ labelResults = Undefined
    /\ personResults = Undefined
    /\ labelTimestamps = <<>>
    /\ timestamps = <<>>
    /\ ti = 0
    /\ currentCluster = <<>>
    /\ lastTimestamp = 0
    /\ potentialHighlights = <<>>
    /\ apc = "idle"
    /\ PipeIdle
    /\ ClipIdle
    /\ campaignArn \in {Undefined, [arn |-> "arn:aws:personalize:campaign/highlights"]}
    /\ rankTable \in RankTables
    /\ preferences = {}
    /\ rankEvent = Undefined
    /\ rankOutcome = Undefined
    /\ rankHighlights = <<>>
    /\ rankResponse = Undefined

\* lines 13-76: one ranking request
RankRequest ==
    \E event \in {[userId |-> UserId], EmptyObject} :
      \E o \in RankOutcomes(event, campaignArn, rankTable) :
        LET r == RankHandler(event, campaignArn, rankTable, preferences, o)
        IN /\ rankEvent' = event
           /\ rankOutcome' = o
           /\ rankHighlights' = r.highlights
           /\ rankResponse' = r.response
           /\ UNCHANGED <<campaignArn, rankTable, preferences, clusterVars, pipeVars,
                          clipVars>>

\* the user stores a preference
AddPreference ==
    \E i \in DOMAIN PreferenceItems :
        /\ PreferenceItems[i] \notin preferences
        /\ Cardinality(preferences) < MaxPrefs
        /\ preferences' = preferences \cup {PreferenceItems[i]}
        /\ UNCHANGED <<campaignArn, rankTable, rankEvent, rankOutcome,
                       rankHighlights, rankResponse, clusterVars, pipeVars, clipVars>>

\* the user deletes a preference
RemovePreference ==
    \E pref \in preferences :
        /\ preferences' = preferences \ {pref}
        /\ UNCHANGED <<campaignArn, rankTable, rankEvent, rankOutcome,
                       rankHighlights, rankResponse, clusterVars, pipeVars, clipVars>>

NextRank == RankRequest \/ AddPreference \/ RemovePreference

SpecRank == InitRank /\ [][NextRank]_vars

(***************************************************************************)
(* Claims about the ranking engine                                         *)
(***************************************************************************)
\* a step of the personalization handler (the other steps edit the preferences)
RankRan == preferences' = preferences

\* the request was answered with a ranking
Ranked(resp) ==
    Has(resp, "statusCode") /\ resp.statusCode = 200 /\ Has(resp.body, "userId")

RECURSIVE SumOfWeights(_)
SumOfWeights(prefs) ==
    IF prefs = {} THEN 0
    ELSE LET p == CHOOSE q \in prefs : TRUE
         IN p.weight + SumOfWeights(prefs \ {p})

\* the sum of the stored weights of the preferences of a type whose value is
\* one of values
MatchingWeight(prefs, type, values) ==
    SumOfWeights({p \in prefs : p.type = type /\ p.value \in values})

ListOf(h, f) == IF Has(h, f) THEN Range(h[f]) ELSE {}
ValueOf(h, f) == IF Has(h, f) THEN {h[f]} ELSE {}

WeightedScore(h, prefs) ==
    h.confidence
    + 10 * MatchingWeight(prefs, "TEAM", ListOf(h, "teams"))
    + 15 * MatchingWeight(prefs, "PLAYER", ListOf(h, "players"))
    + 5 * MatchingWeight(prefs, "PLAY_TYPE", ValueOf(h, "playType"))
    + 3 * MatchingWeight(prefs, "SPORT", ValueOf(h, "sport"))

ScenarioPreferences ==
    {Preference("SPORT", "soccer", 10), Preference("PLAY_TYPE", "goal", 10)}

\* C16: for every highlight and every preference set whose weights are
\* numbers >= 0 (0 included), the rule-based ranking gives personalizedScore =
\* confidence + 10 x (weights of the matching TEAM preferences) + 15 x (weights
\* of the matching PLAYER preferences) + 5 x (weight of the matching PLAY_TYPE
\* preference) + 3 x (weight of the matching SPORT preference); SPORT:soccer:10
\* and PLAY_TYPE:goal:10 give 170 to soccer/goal and 90 to basketball/dunk.
C16_ScoreIsWeightedSum ==
    [][(/\ RankRan
        /\ campaignArn = Undefined
        /\ Ranked(rankResponse')
        /\ \A p \in preferences : p.weight >= 0)
       => LET hs == rankResponse'.body.highlights
          IN /\ \A i \in DOMAIN hs :
                   hs[i].personalizedScore = WeightedScore(hs[i], preferences)
             /\ (preferences = ScenarioPreferences
                 /\ rankTable = <<SoccerGoal, BasketballDunk>>)
                => /\ hs[1].highlightId = SoccerGoal.highlightId
                   /\ hs[1].personalizedScore = 170
                   /\ hs[2].highlightId = BasketballDunk.highlightId
                   /\ hs[2].personalizedScore = 90
      ]_vars

\* the place of the item with the id in the table the scan returned
PlaceInTable(id) == CHOOSE k \in DOMAIN rankTable : rankTable[k].highlightId = id

\* the ids of the items of the table that are processed and COMPLETED
CompletedIds ==
    {rankTable[k].highlightId : k \in {n \in DOMAIN rankTable :
        /\ Has(rankTable[n], "status") /\ rankTable[n].status = "COMPLETED"
        /\ Has(rankTable[n], "processed") /\ rankTable[n].processed = TRUE}}

\* C17: the rule-based ranking is ordered by personalizedScore descending and
\* highlights with equal scores keep the order they have in the pool; the
\* ordering is thereby fixed by the pool and the preferences alone, so ranking
\* an unchanged pool again gives the same ordering.
C17_DescendingAndStable ==
    [][(RankRan /\ campaignArn = Undefined /\ Ranked(rankResponse'))
       => LET hs == rankResponse'.body.highlights
          IN /\ {hs[i].highlightId : i \in DOMAIN hs} = CompletedIds
             /\ Len(hs) = Cardinality(CompletedIds)
             /\ \A i, j \in DOMAIN hs :
                   i < j => /\ hs[i].personalizedScore >= hs[j].personalizedScore
                            /\ hs[i].personalizedScore = hs[j].personalizedScore
                               => PlaceInTable(hs[i].highlightId)
                                    < PlaceInTable(hs[j].highlightId)
      ]_vars

\* two highlights with the same score were returned, in the order of the pool,
\* before a third with a lower score
C17_Witness ==
    /\ campaignArn = Undefined
    /\ rankTable = <<BasketballDunk, Unfinished, SoccerGoal, DerbySave>>
    /\ Ranked(rankResponse)
    /\ LET hs == rankResponse.body.highlights
       IN /\ Len(hs) = 3
          /\ hs[1].highlightId = BasketballDunk.highlightId
          /\ hs[2].highlightId = SoccerGoal.highlightId
          /\ hs[1].personalizedScore = hs[2].personalizedScore
          /\ hs[3].personalizedScore < hs[2].personalizedScore

\* the recommender was called for the request and answered with a list
RecommenderAnswered(o) == Has(o, "recommender") /\ Has(o.recommender, "itemList")

\* the ids of the recommender's list that name a highlight of the pool
KnownIds(itemList) ==
    SelectSeq([i \in DOMAIN itemList |-> itemList[i].itemId],
              LAMBDA id : id \in CompletedIds)

\* C18: when the external recommender is configured and its call succeeds,
\* the result consists exactly of the local highlights whose identifiers occur
\* in the recommender's list, in the recommender's order; unknown identifiers
\* are dropped and leave no empty or undefined entry.
C18_RecommenderOrder ==
    [][(RankRan /\ campaignArn # Undefined /\ RecommenderAnswered(rankOutcome'))
       => LET hs == rankResponse'.body.highlights
              known == KnownIds(rankOutcome'.recommender.itemList)
          IN /\ Ranked(rankResponse')
             /\ Len(hs) = Len(known)
             /\ rankResponse'.body.highlightsCount = Len(known)
             /\ \A i \in DOMAIN hs :
                   /\ hs[i] # Undefined
                   /\ hs[i] = rankTable[PlaceInTable(known[i])]
      ]_vars

\* the recommender named a highlight, an unknown id and another highlight;
\* the two highlights were returned in that order
C18_Witness ==
    /\ campaignArn # Undefined
    /\ RecommenderAnswered(rankOutcome)
    /\ Len(rankOutcome.recommender.itemList) = 3
    /\ Ranked(rankResponse)
    /\ Len(rankResponse.body.highlights) = 2
    /\ rankResponse.body.highlights[1] = BasketballDunk
    /\ rankResponse.body.highlights[2] = SoccerGoal

\* the recommender was called for the request and its call failed
RecommenderFailed(o) == Has(o, "recommender") /\ o.recommender = Throws

RequestRan ==
    <<rankEvent, rankOutcome, rankHighlights, rankResponse>>' #
    <<rankEvent, rankOutcome, rankHighlights, rankResponse>>

Unscored(hs) == \A i \in DOMAIN hs : ~Has(hs[i], "personalizedScore")

MaxStoreRetries == 2    \* runs of the store step after the first one

\* n enriched candidates of one segment, in the order the handler holds them
StoreCandidates(n) ==
    [k \in 1..n |->
        [startTime |-> RatInt(10 * k), endTime |-> RatInt(10 * k + 2),
         duration |-> RatInt(2), confidence |-> RatInt(90), labels |-> <<"Goal">>,
         personCount |-> 0, excitementLevel |-> RatInt(9), playType |-> "goal",
         aiTitle |-> "Goal", aiEnhanced |-> TRUE]]

\* the handler has reached line 533 with its enriched candidates
InitStore ==
    /\ labelResults = Undefined
    /\ personResults = Undefined
    /\ labelTimestamps = <<>>
    /\ timestamps = <<>>
    /\ ti = 0
    /\ currentCluster = <<>>
    /\ lastTimestamp = 0
    /\ apc = "idle"
    /\ \E n \in {0, 1, 2, BatchSize, BatchSize + 1, 2 * BatchSize + 1} :
          /\ potentialHighlights = StoreCandidates(n)
          /\ enhancedHighlights = StoreCandidates(n)
          /\ comprehendEnhancedHighlights = StoreCandidates(n)
    /\ analysisEvent = DirectUpload
    /\ pc = "store"
    /\ jobStatus = [j \in Jobs |-> "SUCCEEDED"]
    /\ jobData = [j \in Jobs |-> Undefined]
    /\ submits = [j \in Jobs |-> 1]
    /\ polls = [j \in Jobs |-> 1]
    /\ lastResponse = Undefined
    /\ now = 0
    /\ bedrockResponse = Undefined
    /\ bedrockCalls = 1
    /\ comprehendOutcome = <<>>
    /\ comprehendCalls = 0
    /\ table = {}
    /\ batchStart = 0
    /\ putRequests = <<>>
    /\ response = Undefined
    /\ ClipIdle
    /\ RankIdle

\* lines 788-790: the store step is entered again for the same segment and
\* the same candidates, after the earlier run was rejected, ended or stopped
\* between two batches; new Date() is at least 1 ms later than before
StoreAgain ==
    /\ pc \in {"storeBatch", "error", "done"}
    /\ now < MaxStoreRetries
    /\ now' = now + 1
    /\ pc' = "store"
    /\ response' = Undefined
    /\ UNCHANGED <<otherVars, analysisEvent, clusterVars, jobStatus, jobData, submits, polls,
                   lastResponse, enhancedHighlights, comprehendEnhancedHighlights,
                   bedrockResponse, bedrockCalls, comprehendOutcome,
                   comprehendCalls, table, batchStart, putRequests>>

NextStore ==
    \/ PrepareStore
    \/ WriteBatch
    \/ WriteBatchRejected
    \/ Respond
    \/ StoreAgain

SpecStore == InitStore /\ [][NextStore]_vars

(***************************************************************************)
(* Claims about retries of the store step                                  *)
(***************************************************************************)
\* C21: when the store step runs again for the same segment and the same
\* candidate list, it produces the identifiers of the first run, so the store
\* never holds two records for one candidate (one position of the list).
C21_RetryOverwrites ==
    \A a, b \in table :
        (a.sourceVideo = b.sourceVideo /\ a.highlightId[3] = b.highlightId[3])
            => a.highlightId = b.highlightId

(***************************************************************************)
(* Claims about the person-data pass and the output of analyzeResults      *)
(***************************************************************************)
\* the identifiers of the tracked persons that have a sample inside the
\* closed interval of h, straight from the tracking response
TrackedIn(h) ==
    {personResults.Persons[k].Person.Index : k \in
        {n \in DOMAIN personResults.Persons :
            /\ RatLe(h.startTime, Rat(personResults.Persons[n].Timestamp, 1000))
            /\ RatLe(Rat(personResults.Persons[n].Timestamp, 1000), h.endTime)}}

\* the step from the clustered candidates to the output of analyzeResults
PersonPass == apc = "persons" /\ apc' = "done"

\* C22: for each candidate, personCount is the number of distinct tracked
\* persons (index 0 included) with a sample in [start, end], and the confidence
\* is the cluster mean times 1.2 if personCount > 5 and the cluster mean
\* otherwise.
C22_PersonCountAndBoost ==
    [][(PersonPass /\ Has(personResults, "Persons"))
       => \A i \in DOMAIN potentialHighlights :
            LET h == potentialHighlights[i]
                n == Cardinality(TrackedIn(h))
            IN \E j \in DOMAIN potentialHighlights' :
                 LET g == potentialHighlights'[j]
                 IN /\ g.startTime = h.startTime
                    /\ g.personCount = n
                    /\ g.confidence = IF n > PersonBoostThreshold
                                      THEN RatMul(h.confidence, 6, 5)
                                      ELSE h.confidence
      ]_vars

\* C23: the person-count boost is capped: every candidate analyzeResults
\* returns has a confidence within the 0-100 scale of detection confidences.
C23_ConfidenceWithinScale ==
    apc = "done"
        => \A i \in DOMAIN potentialHighlights :
              /\ RatLe(RatInt(0), potentialHighlights[i].confidence)
              /\ RatLe(potentialHighlights[i].confidence, RatInt(100))

\* C24: every candidate analyzeResults holds or returns has startTime <=
\* endTime and duration = endTime - startTime >= 0, whatever the detections.
C24_IntervalWellFormed ==
    \A i \in DOMAIN potentialHighlights :
        LET h == potentialHighlights[i]
        IN /\ RatLe(h.startTime, h.endTime)
           /\ h.duration = RatSub(h.endTime, h.startTime)
           /\ RatLe(RatInt(0), h.duration)

\* two candidates were returned, the clusters 0-2 s and 7-9 s
C24_Witness ==
    /\ apc = "done"
    /\ Len(potentialHighlights) = 2
    /\ \E i \in DOMAIN potentialHighlights :
          /\ potentialHighlights[i].startTime = RatInt(7)
          /\ potentialHighlights[i].duration = RatInt(2)
    /\ \E i \in DOMAIN potentialHighlights :
          /\ potentialHighlights[i].startTime = RatInt(0)
          /\ potentialHighlights[i].endTime = RatInt(2)

\* C25: analyzeResults returns its candidates by descending confidence (the
\* confidence after the person boost), and candidates of equal confidence in
\* the order they were found, i.e. by ascending start time.
C25_SortedByConfidence ==
    apc = "done"
        => \A i, j \in DOMAIN potentialHighlights :
              i < j => LET a == potentialHighlights[i]
                           b == potentialHighlights[j]
                       IN /\ RatLe(b.confidence, a.confidence)
                          /\ a.confidence = b.confidence
                                => RatLt(a.startTime, b.startTime)

\* two candidates of equal confidence (277/3) were returned in the order found
C25_Witness ==
    /\ apc = "done"
    /\ Len(potentialHighlights) = 2
    /\ potentialHighlights[1].confidence = potentialHighlights[2].confidence
    /\ potentialHighlights[1].startTime = RatInt(0)
    /\ potentialHighlights[2].startTime = RatInt(7)

\* the detections of the response that are allow-listed and above 85
PassingDetections ==
    IF Has(labelResults, "Labels")
    THEN SelectSeq(labelResults.Labels, LAMBDA l :
             /\ l.Label.Name \in {"Ball", "Sports", "Goal", "Celebration", "Person", "Crowd"}
             /\ l.Confidence > 85)
    ELSE <<>>
\* the passing detections a candidate spans
PassingWithin(h) ==
    SelectSeq(PassingDetections, LAMBDA l :
        /\ RatLe(h.startTime, Rat(l.Timestamp, 1000))
        /\ RatLe(Rat(l.Timestamp, 1000), h.endTime))

\* C26: only detections with an allow-listed label and a confidence strictly
\* above 85 take part in clustering: every swept timestamp, every confidence
\* sample and every label name of a candidate comes from such a detection, and
\* when none passes the result is the empty list.
C26_OnlyFilteredDetections ==
    /\ apc \in {"sweep", "persons", "done"}
          => Range(timestamps) =
                 {PassingDetections[i].Timestamp : i \in DOMAIN PassingDetections}
    /\ apc \in {"sweep", "persons"}
          => \A i \in DOMAIN potentialHighlights :
                LET h == potentialHighlights[i]
                    ds == PassingWithin(h)
                IN /\ ds # <<>>
                   /\ h.confidence = Rat(SumOfConfidences(ds), Len(ds))
                   /\ Range(h.labels) = {ds[k].Label.Name : k \in DOMAIN ds}
    /\ (apc = "done" /\ PassingDetections = <<>>) => potentialHighlights = <<>>

\* a candidate was built over 7-9 s although the response also held a Ball of
\* confidence 85 at 8 s and a Tree at 1 s
C26_Witness ==
    /\ apc = "persons"
    /\ Has(labelResults, "Labels")
    /\ Detection(8000, "Ball", 85) \in Range(labelResults.Labels)
    /\ Detection(1000, "Tree", 99) \in Range(labelResults.Labels)
    /\ Len(potentialHighlights) = 1
    /\ potentialHighlights[1].startTime = RatInt(7)
    /\ potentialHighlights[1].confidence = Rat(277, 3)
    /\ potentialHighlights[1].labels = <<"Ball", "Goal", "Person">>

\* nothing passed the filter and the result is the empty list
C26_EmptyReached ==
    /\ apc = "done"
    /\ Has(labelResults, "Labels")
    /\ labelResults.Labels = <<Detection(1000, "Tree", 99), Detection(8000, "Ball", 85)>>
    /\ potentialHighlights = <<>>

WithinOneToTen(x) == RatLe(RatInt(1), x) /\ RatLe(x, RatInt(10))

\* the persisted records alone
StoredExcitementWithinScale ==
    \A it \in table : WithinOneToTen(it.excitementLevel)

\* C27: every highlight that leaves the enrichment layer, and every record
\* persisted from it, has an excitementLevel from 1 to 10, on the success path
\* and on the fallback paths that derive it as confidence / 10.
C27_ExcitementWithinScale ==
    /\ pc \in {"store", "storeBatch", "done"}
          => \A i \in DOMAIN comprehendEnhancedHighlights :
                LET h == comprehendEnhancedHighlights[i]
                IN Has(h, "excitementLevel") /\ WithinOneToTen(h.excitementLevel)
    /\ StoredExcitementWithinScale

(***************************************************************************)
(* enhanceWithComprehend on one candidate, for every answer of the         *)
(* text-analytics collaborator that matters to generateGamingContext       *)
(***************************************************************************)
MaxPhrases == 3     \* key phrases in one DetectKeyPhrases answer

\* the handler has reached line 530 with one candidate, titled or not
InitContext ==
    LET Titled == StoreCandidates(1)[1]
        Untitled == [f \in DOMAIN Titled \ {"aiTitle"} |-> Titled[f]]
    IN
    /\ labelResults = Undefined
    /\ personResults = Undefined
    /\ labelTimestamps = <<>>
    /\ timestamps = <<>>
    /\ ti = 0
    /\ currentCluster = <<>>
    /\ lastTimestamp = 0
    /\ apc = "idle"
    /\ \E c \in {Titled, Untitled} :
          /\ potentialHighlights = <<c>>
          /\ enhancedHighlights = <<c>>
    /\ comprehendEnhancedHighlights = <<>>
    /\ analysisEvent = DirectUpload
    /\ pc = "comprehend"
    /\ jobStatus = [j \in Jobs |-> "SUCCEEDED"]
    /\ jobData = [j \in Jobs |-> Undefined]
    /\ submits = [j \in Jobs |-> 1]
    /\ polls = [j \in Jobs |-> 1]
    /\ lastResponse = Undefined
    /\ now = 0
    /\ bedrockResponse = Undefined
    /\ bedrockCalls = 1
    /\ comprehendOutcome = <<>>
    /\ comprehendCalls = 0
    /\ table = {}
    /\ batchStart = 0
    /\ putRequests = <<>>
    /\ response = Undefined
    /\ ClipIdle
    /\ RankIdle

\* line 530: enhanceWithComprehend, the three Comprehend calls answering with
\* any sentiment and score, entities and up to MaxPhrases key phrases
ComprehendAnswers ==
    LET
        T_EpicSave == <<"E", "P", "I", "C", " ", "s", "a", "v", "e">>
        T_NiceMove == <<"n", "i", "c", "e", " ", "m", "o", "v", "e">>
        T_NiceEpic == <<"N", "i", "c", "e", " ", "e", "p", "i", "c">>
        T_Corner == <<"c", "o", "r", "n", "e", "r">>
        T_Goal == <<"G", "o", "a", "l">>
        Sentiments ==
            {[Sentiment |-> s, SentimentScore |-> (s :> c)] :
                s \in {"POSITIVE", "NEGATIVE", "NEUTRAL", "MIXED"},
                c \in {Rat(7, 10), Rat(71, 100)}}
            \cup {[Sentiment |-> "POSITIVE", SentimentScore |-> [Positive |-> Rat(9, 10)]]}
        EntityAnswers ==
            {[Entities |-> <<>>],
             [Entities |-> <<[Text |-> T_Goal, Type |-> "EVENT", Score |-> Rat(9, 10)]>>]}
        Phrase(text) == [Text |-> text, Score |-> Rat(9, 10)]
        PhraseAnswers ==
            {[KeyPhrases |-> [i \in 1..Len(l) |-> Phrase(l[i])]] :
                l \in UNION {[1..n -> {T_EpicSave, T_NiceMove, T_NiceEpic, T_Corner}] :
                                n \in 0..MaxPhrases}}
            \cup {[KeyPhrases |-> <<[Score |-> Rat(9, 10)]>>]}
        Answers3 ==
            {[sentiment |-> Throws, entities |-> Undefined, keyPhrases |-> Undefined]}
            \cup {[sentiment |-> s, entities |-> e, keyPhrases |-> k] :
                     s \in Sentiments, e \in EntityAnswers, k \in PhraseAnswers}
    IN
    /\ pc = "comprehend"
    /\ \E a \in Answers3 \cup {NotCalled} :
          LET o == <<a>>
          IN /\ (a = NotCalled) <=> ~(\/ TruthyString(enhancedHighlights[1], "aiTitle")
                                      \/ TruthyString(enhancedHighlights[1], "description"))
             /\ comprehendOutcome' = o
             /\ comprehendEnhancedHighlights' =
                    enhanceWithComprehend(enhancedHighlights, o)
             /\ comprehendCalls' =
                    comprehendCalls + ComprehendLoop(enhancedHighlights, o, 1, <<>>, 0).calls
    /\ pc' = "store"
    /\ UNCHANGED <<otherVars, analysisEvent, clusterVars, jobStatus, jobData, submits, polls, lastResponse,
                   now, enhancedHighlights, bedrockResponse, bedrockCalls, table,
                   batchStart, putRequests, response>>

NextContext == ComprehendAnswers

SpecContext == InitContext /\ [][NextContext]_vars

\* C28: generateGamingContext sets emotionalTone to exciting / intense /
\* balanced for a POSITIVE / NEGATIVE / NEUTRAL title sentiment only when the
\* sentiment confidence exceeds 0.7; at or below 0.7, without a sentiment or
\* with another label the tone is 'neutral'; without entities and key phrases
\* gameplayType and audienceAppeal are 'general' and 'broad'.
C28_ToneAndDefaults ==
    \A i \in DOMAIN comprehendEnhancedHighlights :
        LET h == comprehendEnhancedHighlights[i]
            confident ==
                /\ IsSet(h, "titleSentiment")
                /\ Has(h.titleSentiment, "confidence")
                /\ h.titleSentiment.confidence.num * 10 > 7 * h.titleSentiment.confidence.den
            label == IF confident THEN h.titleSentiment.sentiment ELSE "none"
            none(f) == ~Has(h, f) \/ h[f] = <<>>
        IN Has(h, "gamingContext") =>
              /\ h.gamingContext.emotionalTone =
                    CASE label = "POSITIVE" -> "exciting"
                      [] label = "NEGATIVE" -> "intense"
                      [] label = "NEUTRAL" -> "balanced"
                      [] OTHER -> "neutral"
              /\ (none("titleEntities") /\ none("titleKeyPhrases"))
                    => /\ h.gamingContext.gameplayType = "general"
                       /\ h.gamingContext.audienceAppeal = "broad"

\* a NEUTRAL title sentiment of confidence exactly 0.7, no entities and no key
\* phrases: the context is neutral / general / broad
C28_Witness ==
    /\ pc = "store"
    /\ Len(comprehendEnhancedHighlights) = 1
    /\ LET h == comprehendEnhancedHighlights[1]
       IN /\ Has(h, "gamingContext")
          /\ Has(h, "titleSentiment")
          /\ h.titleSentiment = [sentiment |-> "NEUTRAL", confidence |-> Rat(7, 10)]
          /\ h.titleEntities = <<>>
          /\ h.titleKeyPhrases = <<>>
          /\ h.gamingContext = [emotionalTone |-> "neutral", gameplayType |-> "general",
                                audienceAppeal |-> "broad"]

\* the score the claim gives a list of key phrases: 2 for a phrase containing
\* epic, amazing or incredible, otherwise 1 for great, good or nice, otherwise 0
ClaimedAppealScore(phrases) ==
    LET Contains(p, w) == Includes(ToLowerCase(p.text), w)
        Strong(p) ==
            \/ Contains(p, <<"e", "p", "i", "c">>)
            \/ Contains(p, <<"a", "m", "a", "z", "i", "n", "g">>)
            \/ Contains(p, <<"i", "n", "c", "r", "e", "d", "i", "b", "l", "e">>)
        Mild(p) ==
            \/ Contains(p, <<"g", "r", "e", "a", "t">>)
            \/ Contains(p, <<"g", "o", "o", "d">>)
            \/ Contains(p, <<"n", "i", "c", "e">>)
    IN 2 * Cardinality({i \in DOMAIN phrases : Strong(phrases[i])})
       + Cardinality({i \in DOMAIN phrases : ~Strong(phrases[i]) /\ Mild(phrases[i])})

\* C29: audienceAppeal is 'high' exactly when the additive appeal score is at
\* least 3, 'medium' exactly when it is 1 or 2 and 'broad' when it is 0, where a
\* title key phrase adds 2 if it contains epic / amazing / incredible, otherwise
\* 1 if it contains great / good / nice, otherwise 0.
C29_AppealFromScore ==
    \A i \in DOMAIN comprehendEnhancedHighlights :
        LET h == comprehendEnhancedHighlights[i]
            score == IF Has(h, "titleKeyPhrases")
                     THEN ClaimedAppealScore(h.titleKeyPhrases) ELSE 0
            appeal == h.gamingContext.audienceAppeal
        IN Has(h, "gamingContext") =>
              /\ appeal = "high" <=> score >= 3
              /\ appeal = "medium" <=> score \in {1, 2}
              /\ appeal = "broad" <=> score = 0

\* "Nice epic" counts 2 and not 3: alone it gives 'medium', and with "nice move"
\* behind it the score is 3 and the appeal 'high'
C29_Witness ==
    /\ pc = "store"
    /\ Len(comprehendEnhancedHighlights) = 1
    /\ LET h == comprehendEnhancedHighlights[1]
       IN /\ Has(h, "gamingContext")
          /\ Has(h, "titleKeyPhrases")
          /\ Len(h.titleKeyPhrases) = 2
          /\ h.titleKeyPhrases[1].text = <<"N", "i", "c", "e", " ", "e", "p", "i", "c">>
          /\ h.titleKeyPhrases[2].text = <<"n", "i", "c", "e", " ", "m", "o", "v", "e">>
          /\ h.gamingContext.audienceAppeal = "high"

\* one phrase with words of both groups gives 'medium'
C29_MediumReached ==
    /\ pc = "store"
    /\ Len(comprehendEnhancedHighlights) = 1
    /\ LET h == comprehendEnhancedHighlights[1]
       IN /\ Has(h, "gamingContext")
          /\ Has(h, "titleKeyPhrases")
          /\ Len(h.titleKeyPhrases) = 1
          /\ h.titleKeyPhrases[1].text = <<"N", "i", "c", "e", " ", "e", "p", "i", "c">>
          /\ h.gamingContext.audienceAppeal = "medium"

\* the place of a handler position in the order of the stages
StageOf(p) ==
    CASE p = "labelStart" -> 1
      [] p \in {"labelPoll", "labelWait"} -> 2
      [] p = "personStart" -> 3
      [] p \in {"personPoll", "personWait"} -> 4
      [] p = "analyze" -> 5
      [] p = "bedrock" -> 6
      [] p = "comprehend" -> 7
      [] p \in {"store", "storeBatch"} -> 8
      [] p = "done" -> 9
      [] OTHER -> 0

\* what has happened by the time the handler is at or past each stage
StagesInOrder ==
    /\ (submits["person"] > 0 \/ StageOf(pc) >= 3)
          => /\ jobStatus["label"] = "SUCCEEDED"
             /\ polls["label"] >= 1
             /\ labelResults = jobData["label"]
             /\ labelResults.JobStatus = "SUCCEEDED"
    /\ StageOf(pc) >= 5
          => /\ submits = [j \in Jobs |-> 1]
             /\ jobStatus["person"] = "SUCCEEDED"
             /\ polls["person"] >= 1
             /\ personResults = jobData["person"]
             /\ personResults.JobStatus = "SUCCEEDED"
    /\ StageOf(pc) \in 1..5 => potentialHighlights = <<>> /\ bedrockCalls = 0
    /\ StageOf(pc) >= 6 => potentialHighlights = analyzeResults(labelResults, personResults)
    /\ StageOf(pc) \in 1..6 => enhancedHighlights = <<>> /\ comprehendCalls = 0
    /\ StageOf(pc) >= 7 => bedrockCalls = 1
    /\ comprehendCalls > 0 => bedrockCalls = 1
    /\ \A i \in DOMAIN comprehendOutcome :
          comprehendOutcome[i] # NotCalled
              => /\ i \in DOMAIN enhancedHighlights
                 /\ \/ TruthyString(enhancedHighlights[i], "aiTitle")
                    \/ TruthyString(enhancedHighlights[i], "description")
    /\ StageOf(pc) \in 1..7 => putRequests = <<>> /\ table = {}
    /\ (putRequests # <<>> \/ table # {})
          => /\ bedrockCalls = 1
             /\ Len(comprehendEnhancedHighlights) = Len(potentialHighlights)
             /\ Len(putRequests) = Len(comprehendEnhancedHighlights)

RunRecords == {it \in table : it.timestamp = now}
\* the first k put requests of the current run
FirstRequests(k) == {putRequests[i] : i \in {j \in DOMAIN putRequests : j <= k}}

\* C31: storeHighlightMetadata writes every enriched highlight exactly once, in
\* input order, in consecutive batches of at most 25 items; when the write of a
\* batch fails the error reaches the caller, the batches before it stay
\* persisted and no later batch is attempted.
C31_BatchesInOrder ==
    /\ [](pc \in {"storeBatch", "done", "error"} =>
            /\ Len(putRequests) = Len(comprehendEnhancedHighlights)
            /\ \A i \in DOMAIN putRequests :
                  /\ putRequests[i].highlightId[3] = i - 1
                  /\ putRequests[i].startTime = comprehendEnhancedHighlights[i].startTime
            /\ batchStart % 25 = 0
            /\ RunRecords = FirstRequests(batchStart)
            /\ Cardinality(RunRecords) =
                   IF batchStart < Len(putRequests) THEN batchStart ELSE Len(putRequests)
            /\ pc = "done" => RunRecords = Range(putRequests)
            /\ pc = "error" => /\ response.statusCode = 500
                               /\ batchStart < Len(putRequests))
    /\ [][table' # table =>
            /\ pc = "storeBatch"
            /\ table \subseteq table'
            /\ Cardinality(table' \ table) <= 25
            /\ table' \ table = FirstRequests(batchStart + 25) \ FirstRequests(batchStart)]_vars
    /\ [][pc = "error" => table' = table]_vars

\* the second of three batches was rejected: the caller has the error, the 25
\* records of the first batch are persisted, those of the third were not sent
C31_Witness ==
    /\ pc = "error"
    /\ Len(putRequests) = 2 * BatchSize + 1
    /\ batchStart = BatchSize
    /\ Cardinality(RunRecords) = BatchSize
    /\ response.statusCode = 500

\* 51 highlights were written in three batches
C31_AllWritten ==
    /\ pc = "done"
    /\ Len(putRequests) = 2 * BatchSize + 1
    /\ RunRecords = Range(putRequests)
    /\ Cardinality(RunRecords) = 2 * BatchSize + 1

\* the segment reference of an event: the top-level property or, when that is
\* missing or empty, the one below detail; <<>> when there is none
ReferenceOf(e, f, df, dg) ==
    IF Has(e, f) /\ e[f] # <<>> THEN e[f]
    ELSE IF Has(e, "detail") /\ Has(e.detail, df) /\ Has(e.detail[df], dg)
         THEN e.detail[df][dg] ELSE <<>>

\* an event the claim calls malformed; blanks around a reference do not count
\* and the extension is compared without regard to case
MalformedEvent(e) ==
    LET bucket == ReferenceOf(e, "bucket", "bucket", "name")
        key == ReferenceOf(e, "key", "object", "key")
        text == {i \in DOMAIN key : key[i] # " "}
        end == CHOOSE i \in text : \A k \in text : k <= i
        direct == ~(Has(e, "source") /\ e.source = "kinesis-video-streams")
    IN \/ \A i \in DOMAIN bucket : bucket[i] = " "
       \/ text = {}
       \/ /\ direct
          /\ \/ end < 4
             \/ ToLowerCase(SubSeq(key, end - 3, end)) # <<".", "m", "p", "4">>
       \/ \E i \in DOMAIN key : i + 1 \in DOMAIN key /\ key[i] = "." /\ key[i + 1] = "."
       \/ \E i \in text : key[i] = "/" /\ \A k \in text : i <= k

\* C32: for an event with a missing or empty bucket or key, a direct-upload
\* key not ending in .mp4, or a key containing '..' or starting with '/', the
\* handler answers with an error response, submits no detection or tracking
\* job, calls no enrichment collaborator, writes nothing to the store and takes
\* no further step.
C32_MalformedEventRejected ==
    /\ []((MalformedEvent(analysisEvent) /\ pc # "validate") =>
            /\ pc = "error"
            /\ response.statusCode = 500 /\ response.error
            /\ submits = [j \in Jobs |-> 0]
            /\ polls = [j \in Jobs |-> 0]
            /\ jobStatus = [j \in Jobs |-> "NONE"]
            /\ bedrockCalls = 0
            /\ comprehendCalls = 0
            /\ putRequests = <<>>
            /\ table = {})
    /\ [][~(MalformedEvent(analysisEvent) /\ pc = "error")]_vars

\* the key " /final.mp4", which starts with '/' once trimmed, was rejected
C32_Witness ==
    /\ pc = "error"
    /\ Has(analysisEvent, "key")
    /\ analysisEvent.key = <<" ", "/", "f", "i", "n", "a", "l", ".", "m", "p", "4">>
    /\ response = ErrorResponse("Invalid file path detected")
    /\ submits = [j \in Jobs |-> 0]

\* a stream segment that is not an MP4 file passed the validation
C32_SegmentAccepted ==
    /\ pc = "labelPoll"
    /\ Has(analysisEvent, "source")
    /\ ~MalformedEvent(analysisEvent)

(***************************************************************************)
(* The handler under the scheduling of the runtime: an awaited poll        *)
(* returns and a timer that was set fires                                  *)
(***************************************************************************)
SpecPolling ==
    Init /\ [][Next]_vars /\ \A j \in Jobs : WF_vars(PollJob(j)) /\ WF_vars(Wake(j))

\* waitForJobCompletion is running for job j
Waiting(j) == pc \in {j \o "Poll", j \o "Wait"}
Terminal(j) == jobStatus[j] \in {"SUCCEEDED", "FAILED"}

\* C33: once the external job reports SUCCEEDED or FAILED, waitForJobCompletion
\* eventually terminates, by returning the result or by raising the failure,
\* and polls that job no more afterwards; the loop has no other exit, so while
\* the job reports neither the polls go on.
C33_PollerTerminates ==
    /\ \A j \in Jobs : (Waiting(j) /\ Terminal(j)) ~> ~Waiting(j)
    /\ [][\A j \in Jobs :
            /\ (Waiting(j) /\ ~Waiting(j)')
                  => /\ lastResponse'.JobStatus \in {"SUCCEEDED", "FAILED"}
                     /\ \/ pc' = "error" /\ lastResponse'.JobStatus = "FAILED"
                        \/ pc' # "error" /\ lastResponse'.JobStatus = "SUCCEEDED"
            /\ (submits[j] > 0 /\ ~Waiting(j)) => polls'[j] = polls[j]
            /\ (pc = j \o "Wait" /\ pc' # pc) => pc' = j \o "Poll"]_vars

\* the label job was still IN_PROGRESS at every poll until the last one, which
\* saw it SUCCEEDED and ended the loop
C33_Witness ==
    /\ pc = "personStart"
    /\ polls["label"] = MaxPolls + 1
    /\ now = MaxPolls * PollIntervalMs
    /\ lastResponse.JobStatus = "SUCCEEDED"

\* the job reports neither status and the loop has polled at every turn
C33_StillPolling ==
    /\ pc = "labelWait"
    /\ jobStatus["label"] = "IN_PROGRESS"
    /\ polls["label"] = MaxPolls

\* the value candidate i must have for a property: the one at position i of
\* the response when that is non-empty, else the default of the merge
FromOwnPosition(i, f, default) ==
    IF i <= Len(InsightList) /\ Has(InsightList[i], f)
       /\ InsightList[i][f] # (IF f = "excitementLevel" THEN RatInt(0) ELSE "")
    THEN InsightList[i][f] ELSE default

\* C34: when the contextual call succeeds, the enriched list has the length
\* and the order of the candidate list, and candidate i takes excitementLevel,
\* playType, title and targetAudience from position i of the response only.
C34_MergeIsPositional ==
    (AfterBedrock /\ ContextualSucceeded) =>
        /\ Len(enhancedHighlights) = Len(potentialHighlights)
        /\ \A i \in DOMAIN potentialHighlights :
              LET h == enhancedHighlights[i]
                  c == potentialHighlights[i]
              IN /\ \A f \in DOMAIN c : h[f] = c[f]
                 /\ h.excitementLevel =
                        FromOwnPosition(i, "excitementLevel", RatDiv(c.confidence, 10))
                 /\ h.playType = FromOwnPosition(i, "playType", "general")
                 /\ h.aiTitle = FromOwnPosition(i, "title", "Highlight " \o ToString(i))
                 /\ h.targetAudience = FromOwnPosition(i, "targetAudience", "general")

\* two candidates and two insights: the first took the goal, the second the save
C34_Witness ==
    /\ AfterBedrock
    /\ ContextualSucceeded
    /\ Len(potentialHighlights) = 2
    /\ Len(InsightList) = 2
    /\ InsightList[1] = GoalInsight
    /\ InsightList[2] # GoalInsight
    /\ Has(InsightList[2], "title")
    /\ enhancedHighlights[1].aiTitle = GoalInsight.title
    /\ enhancedHighlights[2].aiTitle = InsightList[2].title
    /\ enhancedHighlights[2].playType = "save"

\* C35: for any interleaving of stream, direct and manual re-scan invocations
\* at most one transcoding job is submitted for a highlight that has no
\* generated clip yet: a highlight whose clipStatus is already 'processing' is
\* not submitted a second time.
C35_NoSecondJobWhileProcessing ==
    [][\A j \in NewJobs :
          LET h == mcJobs'[j].UserMetadata.highlightId
          IN /\ ~(/\ Has(highlightsTable[h], "clipStatus")
                  /\ highlightsTable[h].clipStatus = "processing")
             /\ \A k \in DOMAIN mcJobs :
                   (mcJobs[k].UserMetadata.highlightId = h /\ mcJobs[k].Status = "SUBMITTED")
                       => ClipGenerated(highlightsTable, h)]_vars

ClipStatusOf(tbl, h) == IF Has(tbl[h], "clipStatus") THEN tbl[h].clipStatus ELSE "none"

\* C36: in every reachable state of a highlight record clipGenerated = true
\* implies clipStatus = 'completed', for every order in which the COMPLETE and
\* ERROR events of the highlight's jobs are delivered, and a record once
\* 'completed' is never moved to 'failed' or back to 'processing'.
C36_GeneratedImpliesCompleted ==
    /\ [](\A h \in DOMAIN highlightsTable :
             ClipGenerated(highlightsTable, h)
                 => ClipStatusOf(highlightsTable, h) = "completed")
    /\ [][\A h \in DOMAIN highlightsTable :
             ClipStatusOf(highlightsTable, h) = "completed"
                 => ClipStatusOf(highlightsTable', h) = "completed"]_vars

\* the attribute a of a stream image has the BOOL value b
ImageBool(image, a, b) == Has(image, a) /\ Has(image[a], "BOOL") /\ image[a].BOOL = b

\* the stream records for which the spec lets a job be submitted
EligibleRecord(record) ==
    /\ record.eventName = "INSERT"
    /\ Has(record.dynamodb, "NewImage")
    /\ ~ImageBool(record.dynamodb.NewImage, "clipGenerated", TRUE)
    /\ ~ImageBool(record.dynamodb.NewImage, "processed", FALSE)

\* C37: processDynamoDBEvent causes a job to be submitted for a stream record
\* only if the record is an INSERT whose new image has clipGenerated not true
\* and processed not false: every job a stream invocation submits names the
\* highlight of such a record, so a record inserted with processed = false
\* never triggers a job.
C37_JobOnlyForEligibleRecord ==
    [][(HandlerRan /\ IsStreamBatch(clipEvent'))
          => \A j \in NewJobs :
               \E i \in 1..Len(clipEvent'.Records) :
                  /\ EligibleRecord(clipEvent'.Records[i])
                  /\ clipEvent'.Records[i].dynamodb.NewImage.highlightId.S
                       = mcJobs'[j].UserMetadata.highlightId]_vars

\* candidate a ends at least ClusterGapMs before candidate b starts
EndsWellBefore(a, b) ==
    RatLe(RatInt(ClusterGapMs), RatMul(RatSub(b.startTime, a.endTime), 1000, 1))

\* C38: the candidates of one clustering run are pairwise disjoint in time:
\* every filtered timestamp belongs to at most one candidate, and between the
\* end of one candidate and the start of the next one in time there is a gap
\* of at least 5000 ms.
C38_CandidatesDisjoint ==
    /\ \A i, j \in DOMAIN potentialHighlights :
          i # j => \/ EndsWellBefore(potentialHighlights[i], potentialHighlights[j])
                   \/ EndsWellBefore(potentialHighlights[j], potentialHighlights[i])
    /\ \A t \in KeptTimestamps :
          Cardinality({i \in DOMAIN potentialHighlights :
                          t \in SpannedTimestamps(potentialHighlights[i])}) <= 1

\* the sweep has ended with two candidates exactly 5000 ms apart, the later
\* one first after the sort
C38_Witness ==
    /\ apc = "done"
    /\ Len(potentialHighlights) = 2
    /\ potentialHighlights[2].endTime = RatInt(2)
    /\ potentialHighlights[1].startTime = RatInt(7)
    /\ Cardinality(KeptTimestamps) = 6

\* the record is one of those the scan of getAvailableHighlights returns
InRankingPool(item) == getAvailableHighlights(<<item>>) = <<item>>

\* C39: every highlight persisted by the video-analysis pipeline whose
\* transcoding job completes successfully belongs to the pool the ranking
\* engine reads (processed = true and status = 'COMPLETED'): when the handler
\* has processed the COMPLETE event of the job, its last write to the record,
\* the record is one the scan returns.
C39_CompletedHighlightInPool ==
    [][\A h \in DOMAIN highlightsTable :
          (/\ HandlerRan
           /\ IsJobEvent(clipEvent')
           /\ highlightsTable[h].processed = TRUE
           /\ ~ClipGenerated(highlightsTable, h)
           /\ ClipGenerated(highlightsTable', h))
              => InRankingPool(highlightsTable'[h])]_vars

\* no record of the highlights table is ever one the scan returns
C39_NeverInPool ==
    \A h \in DOMAIN highlightsTable : ~InRankingPool(highlightsTable[h])

====
